---------------------------- MODULE Spec2Model ----------------------------
(***************************************************************************)
(* Certifii: text fields placed on an image template, bound to the columns *)
(* of imported rows, rendered once per row.  The model follows the React   *)
(* components FieldDesigner (src/StepIndicator.tsx), CertificateGenerator  *)
(* (src/TemplateUpload.tsx), DataImport (src/DataImport.tsx) and App       *)
(* (src/App.tsx).                                                          *)
(*                                                                         *)
(* JavaScript numbers are modelled as exact rationals plus NaN (rounding   *)
(* of doubles is abstracted away); strings are sequences of one-character  *)
(* strings, so that length, lower-casing and substring search are computed.*)
(***************************************************************************)
EXTENDS Integers, Sequences, FiniteSets, TLC

VARIABLES
    currentStep,     \* App: the wizard step that is mounted
    template,        \* App: the template's native size
    fields,          \* App: the session's field collection
    data,            \* App: the imported rows
    selectedField,   \* placement controller (of the mounted component)
    isDragging,
    dragOffset,
    editableFields,  \* CertificateGenerator: the editable copy of fields
    previewIndex,
    isEditMode,
    isGenerating,
    generatedCount,
    canvas,          \* the preview surface
    loads,           \* the image loads of renderPreview calls that are pending
    exported,        \* per row: the surface generateCertificateImage produced
    run,             \* the export run: where generateAllCertificates stands
    orphans,         \* the export runs of generators that were unmounted meanwhile
    parses,          \* DataImport: the Papa.parse calls that have not completed
    saved,           \* the archives handed to saveAs
    detectedColumns, \* DataImport: the columns of the last parsed file
    showColumnMapping,
    clock,           \* Date.now()
    steps,           \* how many handlers have run
    last             \* the last handler that ran, with what it read

vars == <<currentStep, template, fields, data, selectedField, isDragging,
          dragOffset, editableFields, previewIndex, isEditMode, isGenerating,
          generatedCount, canvas, loads, exported, run, orphans, saved, detectedColumns,
          showColumnMapping, parses, clock, steps, last>>

---------------------------------------------------------------------------
(* Numbers: n/d in lowest terms with d > 0; NaN is 0/0.                    *)

Abs(i) == IF i < 0 THEN -i ELSE i

RECURSIVE Gcd(_, _)
Gcd(a, b) == IF b = 0 THEN a ELSE Gcd(b, a % b)

NaN == [n |-> 0, d |-> 0]

IsNaN(a) == a.d = 0

Frac(n, d) ==
    LET s == IF d < 0 THEN -1 ELSE 1
        g == Gcd(Abs(n), Abs(d))
    IN  [n |-> (s * n) \div g, d |-> (s * d) \div g]

Num(i) == [n |-> i, d |-> 1]

Plus(a, b) ==
    IF IsNaN(a) \/ IsNaN(b) THEN NaN
    ELSE Frac(a.n * b.d + b.n * a.d, a.d * b.d)

Minus(a, b) ==
    IF IsNaN(a) \/ IsNaN(b) THEN NaN
    ELSE Frac(a.n * b.d - b.n * a.d, a.d * b.d)

Times(a, b) ==
    IF IsNaN(a) \/ IsNaN(b) THEN NaN
    ELSE Frac(a.n * b.n, a.d * b.d)

\* a / b for b # 0 (no handler divides by a zero it can be given: the
\* divisors are 2, 3 and the sides of a laid-out display box)
Over(a, b) ==
    IF IsNaN(a) \/ IsNaN(b) THEN NaN
    ELSE Frac(a.n * b.d, a.d * b.n)

\* a < b, a <= b: false when either side is NaN
Less(a, b) == ~IsNaN(a) /\ ~IsNaN(b) /\ a.n * b.d < b.n * a.d

LessEq(a, b) == ~IsNaN(a) /\ ~IsNaN(b) /\ a.n * b.d <= b.n * a.d

MathMax(a, b) ==
    IF IsNaN(a) \/ IsNaN(b) THEN NaN ELSE IF Less(a, b) THEN b ELSE a

MathMin(a, b) ==
    IF IsNaN(a) \/ IsNaN(b) THEN NaN ELSE IF Less(b, a) THEN b ELSE a

MathCeil(a) == IF IsNaN(a) THEN NaN ELSE Num(-((-a.n) \div a.d))

\* JavaScript truthiness of a number: 0 and NaN are falsy
TruthyNum(a) == ~IsNaN(a) /\ a.n # 0

---------------------------------------------------------------------------
(* Strings                                                                 *)

UpperCase == <<"A", "B", "C", "D", "E", "F", "G", "H", "I", "J", "K", "L", "M",
               "N", "O", "P", "Q", "R", "S", "T", "U", "V", "W", "X", "Y", "Z">>

LowerCase == <<"a", "b", "c", "d", "e", "f", "g", "h", "i", "j", "k", "l", "m",
               "n", "o", "p", "q", "r", "s", "t", "u", "v", "w", "x", "y", "z">>

toLowerCase(s) ==
    [i \in 1..Len(s) |->
        IF \E k \in 1..Len(UpperCase) : UpperCase[k] = s[i]
        THEN LowerCase[CHOOSE k \in 1..Len(UpperCase) : UpperCase[k] = s[i]]
        ELSE s[i]]

includes(s, sub) ==
    \E i \in 0..(Len(s) - Len(sub)) :
        \A j \in 1..Len(sub) : s[i + j] = sub[j]

DigitChars == <<"0", "1", "2", "3", "4", "5", "6", "7", "8", "9">>

RECURSIVE NatToString(_)
NatToString(k) ==
    IF k < 10 THEN <<DigitChars[k + 1]>>
    ELSE NatToString(k \div 10) \o <<DigitChars[(k % 10) + 1]>>

---------------------------------------------------------------------------
(* Text metrics: the browser's canvas font state and measureText.          *)

\* a fresh 2d context's font
DefaultFont == [size |-> Num(10), family |-> "sans-serif"]

\* ctx.font = `${fontSize}px ${fontFamily}`: the assignment is ignored when
\* the string is no CSS font (a NaN or negative size), leaving the context's font
SetFont(font, fontSize, fontFamily) ==
    IF IsNaN(fontSize) \/ Less(fontSize, Num(0)) THEN font
    ELSE [size |-> fontSize, family |-> fontFamily]

\* the advance of a glyph as a fraction of the font size
GlyphAdvance(fontFamily) ==
    IF fontFamily = "Courier New" THEN Frac(3, 5)
    ELSE IF fontFamily = "Times New Roman" THEN Frac(1, 2)
    ELSE Frac(5, 9)

\* ctx.measureText(text).width under the context's font
measureText(font, text) ==
    Times(Num(Len(text)), Times(font.size, GlyphAdvance(font.family)))

TextPadding == 20

\* faulty variant: the measured width is not rounded up
calculateTextWidthExact(text, fontSize, fontFamily) ==
    Plus(measureText(SetFont(DefaultFont, fontSize, fontFamily), text), Num(TextPadding))

calculateTextWidth(text, fontSize, fontFamily) ==
    Plus(MathCeil(measureText(SetFont(DefaultFont, fontSize, fontFamily), text)),
         Num(TextPadding))

---------------------------------------------------------------------------
(* Sample strings                                                          *)

sEmpty == <<>>
sName == <<"N", "a", "m", "e">>
sCourse == <<"C", "o", "u", "r", "s", "e">>
sTitle == <<"T", "i", "t", "l", "e">>
sAnn == <<"A", "n", "n">>
sBeatrice == <<"B", "e", "a", "t", "r", "i", "c", "e", " ",
               "M", "o", "n", "t", "g", "o", "m", "e", "r", "y">>
sWeb == <<"W", "e", "b">>

\* FieldDesigner's placeholder text for a label
getDummyText(label) ==
    LET lowerLabel == toLowerCase(label)
    IN  IF includes(lowerLabel, <<"n", "a", "m", "e">>)
        THEN <<"J", "o", "h", "n", " ", "S", "m", "i", "t", "h">>
        ELSE IF includes(lowerLabel, <<"c", "o", "u", "r", "s", "e">>)
        THEN <<"W", "e", "b", " ", "D", "e", "v", "e", "l", "o", "p", "m", "e", "n", "t">>
        ELSE IF includes(lowerLabel, <<"d", "a", "t", "e">>)
        THEN <<"2", "0", "2", "4", "-", "0", "1", "-", "1", "5">>
        ELSE IF includes(lowerLabel, <<"g", "r", "a", "d", "e">>)
        THEN <<"A", "+">>
        ELSE IF includes(lowerLabel, <<"i", "n", "s", "t", "r", "u", "c", "t", "o", "r">>)
        THEN <<"D", "r", ".", " ", "J", "o", "h", "n", "s", "o", "n">>
        ELSE IF includes(lowerLabel, <<"i", "n", "s", "t", "i", "t", "u", "t", "i", "o", "n">>)
        THEN <<"T", "e", "c", "h", " ", "A", "c", "a", "d", "e", "m", "y">>
        ELSE IF includes(lowerLabel, <<"s", "c", "o", "r", "e">>)
        THEN <<"9", "5", "%">>
        ELSE IF includes(lowerLabel, <<"d", "u", "r", "a", "t", "i", "o", "n">>)
        THEN <<"6", " ", "m", "o", "n", "t", "h", "s">>
        ELSE IF includes(lowerLabel, <<"c", "e", "r", "t", "i", "f", "i", "c", "a", "t", "e">>)
        THEN <<"C", "e", "r", "t", "i", "f", "i", "c", "a", "t", "e", " ", "o", "f", " ",
               "C", "o", "m", "p", "l", "e", "t", "i", "o", "n">>
        ELSE <<"S", "a", "m", "p", "l", "e", " ", "T", "e", "x", "t">>

---------------------------------------------------------------------------
(* Data rows: a CertificateData maps column names to strings.  data[i] of  *)
(* the code is RowAt(data, i): undefined beyond the rows.                  *)

Undefined == [defined |-> FALSE, cells |-> <<>>]

RowAt(rows, index) ==
    IF index \in 0..(Len(rows) - 1)
    THEN [defined |-> TRUE, cells |-> rows[index + 1]]
    ELSE Undefined

\* faulty variant: a missing value is replaced by the label
CellOrLabel(certificateData, label) ==
    IF label \in DOMAIN certificateData.cells /\ certificateData.cells[label] # sEmpty
    THEN certificateData.cells[label]
    ELSE label

\* certificateData[label] || ''
Cell(certificateData, label) ==
    IF label \in DOMAIN certificateData.cells
    THEN certificateData.cells[label]
    ELSE sEmpty

---------------------------------------------------------------------------
(* Field geometry                                                          *)

\* faulty variant: the text is measured whether or not the field is auto-width
CG_measuredWidth(field, certificateData) ==
    IF certificateData.defined /\ Cell(certificateData, field.label) # sEmpty
    THEN calculateTextWidth(Cell(certificateData, field.label), field.fontSize, field.fontFamily)
    ELSE field.width

\* faulty variant: an auto-width field is measured even when its text is empty
CG_autoWidthOfAnyText(field, certificateData) ==
    IF field.autoWidth /\ certificateData.defined
    THEN calculateTextWidth(Cell(certificateData, field.label), field.fontSize, field.fontFamily)
    ELSE field.width

\* CertificateGenerator.getEffectiveWidth(field, certificateData)
CG_getEffectiveWidth(field, certificateData) ==
    IF field.autoWidth /\ certificateData.defined /\ Cell(certificateData, field.label) # sEmpty
    THEN calculateTextWidth(Cell(certificateData, field.label), field.fontSize, field.fontFamily)
    ELSE field.width

\* FieldDesigner.getEffectiveWidth(field)
FD_getEffectiveWidth(field) ==
    IF field.autoWidth
    THEN calculateTextWidth(getDummyText(field.label), field.fontSize, field.fontFamily)
    ELSE field.width

---------------------------------------------------------------------------
(* Render pipeline.  A surface records its size and the fillText calls     *)
(* issued on it, each with the context state it was issued under; the      *)
(* effectiveWidth local of the loop body is recorded with the call.        *)

NoSurface == [rendered |-> FALSE, width |-> Num(0), height |-> Num(0), draws |-> <<>>]

\* CertificateGenerator before its first export run: no generateAllCertificates
\* call is suspended
NoRun ==
    [phase |-> "idle", flds |-> <<>>, pending |-> {}, zip |-> <<>>, added |-> <<>>,
     surfaces |-> <<>>, failed |-> {}]

\* faulty variants of the forEach body: the call it would issue with the
\* given effective width and anchor
CG_fillTextWith(field, certificateData, font, effectiveWidth, x, y) ==
    [font |-> SetFont(font, field.fontSize, field.fontFamily),
     fillStyle |-> field.color, textAlign |-> field.align,
     text |-> Cell(certificateData, field.label), x |-> x, y |-> y,
     effectiveWidth |-> effectiveWidth]

CG_anchorX(field, effectiveWidth) ==
    IF field.align = "center" THEN Plus(field.x, Over(effectiveWidth, Num(2)))
    ELSE IF field.align = "right" THEN Plus(field.x, effectiveWidth)
    ELSE field.x

CG_anchorY(field) ==
    Plus(Plus(field.y, Over(field.height, Num(2))), Over(field.fontSize, Num(3)))

\* anchored by the stored width, whatever the field's autoWidth
CG_fillTextStoredWidth(field, certificateData, font) ==
    CG_fillTextWith(field, certificateData, font, field.width,
                    CG_anchorX(field, field.width), CG_anchorY(field))

\* the baseline one font size below the top of the field
CG_fillTextBelowTop(field, certificateData, font) ==
    CG_fillTextWith(field, certificateData, font,
                    CG_getEffectiveWidth(field, certificateData),
                    CG_anchorX(field, CG_getEffectiveWidth(field, certificateData)),
                    Plus(field.y, field.fontSize))

\* anchored at the left edge, whatever the field's align
CG_fillTextLeftAnchored(field, certificateData, font) ==
    CG_fillTextWith(field, certificateData, font,
                    CG_getEffectiveWidth(field, certificateData), field.x,
                    CG_anchorY(field))

\* the baseline on the middle line of the field
CG_fillTextMidline(field, certificateData, font) ==
    CG_fillTextWith(field, certificateData, font,
                    CG_getEffectiveWidth(field, certificateData),
                    CG_anchorX(field, CG_getEffectiveWidth(field, certificateData)),
                    Plus(field.y, Over(field.height, Num(2))))

\* generateCertificateImage: the body of the forEach over editableFields,
\* run with the context's font left by the field before
CG_exportFillText(field, certificateData, font) ==
    LET text == Cell(certificateData, field.label)
        effectiveWidth == CG_getEffectiveWidth(field, certificateData)
        x == IF field.align = "center"
             THEN Plus(field.x, Over(effectiveWidth, Num(2)))
             ELSE IF field.align = "right"
             THEN Plus(field.x, effectiveWidth)
             ELSE field.x
        y == Plus(Plus(field.y, Over(field.height, Num(2))), Over(field.fontSize, Num(3)))
    IN  [font |-> SetFont(font, field.fontSize, field.fontFamily),
         fillStyle |-> field.color, textAlign |-> field.align,
         text |-> text, x |-> x, y |-> y, effectiveWidth |-> effectiveWidth]

RECURSIVE CG_exportDraws(_, _, _)
CG_exportDraws(flds, certificateData, font) ==
    IF flds = <<>> THEN <<>>
    ELSE
        LET call == CG_exportFillText(Head(flds), certificateData, font)
        IN  <<call>> \o CG_exportDraws(Tail(flds), certificateData, call.font)

generateCertificateImage(tpl, flds, certificateData) ==
    [rendered |-> TRUE, width |-> tpl.width, height |-> tpl.height,
     draws |-> CG_exportDraws(flds, certificateData, DefaultFont)]

\* renderPreview: the body of the forEach over editableFields
CG_previewFillText(field, certificateData, font) ==
    LET text == Cell(certificateData, field.label)
        effectiveWidth == CG_getEffectiveWidth(field, certificateData)
        x == IF field.align = "center"
             THEN Plus(field.x, Over(effectiveWidth, Num(2)))
             ELSE IF field.align = "right"
             THEN Plus(field.x, effectiveWidth)
             ELSE field.x
        y == Plus(Plus(field.y, Over(field.height, Num(2))), Over(field.fontSize, Num(3)))
    IN  [font |-> SetFont(font, field.fontSize, field.fontFamily),
         fillStyle |-> field.color, textAlign |-> field.align,
         text |-> text, x |-> x, y |-> y, effectiveWidth |-> effectiveWidth]

RECURSIVE CG_previewDraws(_, _, _)
CG_previewDraws(flds, certificateData, font) ==
    IF flds = <<>> THEN <<>>
    ELSE
        LET call == CG_previewFillText(Head(flds), certificateData, font)
        IN  <<call>> \o CG_previewDraws(Tail(flds), certificateData, call.font)

\* setting canvas.width resets the visible canvas's context to its defaults
renderPreview(tpl, flds, certificateData) ==
    [rendered |-> TRUE, width |-> tpl.width, height |-> tpl.height,
     draws |-> CG_previewDraws(flds, certificateData, DefaultFont)]

---------------------------------------------------------------------------
(* Field updates                                                           *)

NoField == <<>>

NoUpdates == <<>>

\* { ...field, ...updates }
Spread(field, updates) ==
    [k \in DOMAIN field |-> IF k \in DOMAIN updates THEN updates[k] ELSE field[k]]

\* faulty variant: every update of an auto-width field measures it again
TouchesMeasureAlways(updates) == TRUE

\* updates.fontSize || updates.fontFamily || updates.label
TouchesMeasure(updates) ==
    \/ "fontSize" \in DOMAIN updates /\ TruthyNum(updates.fontSize)
    \/ "fontFamily" \in DOMAIN updates /\ updates.fontFamily # ""
    \/ "label" \in DOMAIN updates /\ updates.label # sEmpty

\* FieldDesigner.updateField: what the map callback returns for the field
\* whose id matches
FD_updatedField(field, updates) ==
    LET updatedField == Spread(field, updates)
        dummyText == getDummyText(updatedField.label)
        measured == calculateTextWidth(dummyText, updatedField.fontSize,
                                       updatedField.fontFamily)
        enabled == IF "autoWidth" \in DOMAIN updates /\ updates.autoWidth = TRUE
                   THEN [updatedField EXCEPT !.width = measured]
                   ELSE updatedField
    IN  IF enabled.autoWidth /\ TouchesMeasure(updates)
        THEN [enabled EXCEPT !.width = measured]
        ELSE enabled

\* faulty variant: the update is applied to every field of the collection
FD_updateFieldOfAll(flds, id, updates) ==
    [i \in 1..Len(flds) |-> FD_updatedField(flds[i], updates)]

FD_updateField(flds, id, updates) ==
    [i \in 1..Len(flds) |->
        IF flds[i].id = id THEN FD_updatedField(flds[i], updates) ELSE flds[i]]

\* CertificateGenerator.updateField: what the map callback returns for the
\* field whose id matches; certificateData is data[previewIndex]
CG_updatedField(field, updates, certificateData) ==
    LET updatedField == Spread(field, updates)
        text == Cell(certificateData, updatedField.label)
        measured == calculateTextWidth(text, updatedField.fontSize,
                                       updatedField.fontFamily)
        enabled == IF /\ "autoWidth" \in DOMAIN updates /\ updates.autoWidth = TRUE
                      /\ certificateData.defined /\ text # sEmpty
                   THEN [updatedField EXCEPT !.width = measured]
                   ELSE updatedField
    IN  IF /\ enabled.autoWidth /\ TouchesMeasure(updates)
           /\ certificateData.defined /\ text # sEmpty
        THEN [enabled EXCEPT !.width = measured]
        ELSE enabled

CG_updateField(flds, id, updates, certificateData) ==
    [i \in 1..Len(flds) |->
        IF flds[i].id = id
        THEN CG_updatedField(flds[i], updates, certificateData)
        ELSE flds[i]]

\* fields.find(f => f.id === id): the fields with that id, first one first
Find(flds, id) == SelectSeq(flds, LAMBDA f : f.id = id)

---------------------------------------------------------------------------
(* Pointer events and the display box                                      *)

Pointer(cx, cy) == [clientX |-> Num(cx), clientY |-> Num(cy)]

NoEvent == [clientX |-> NaN, clientY |-> NaN]

\* getBoundingClientRect() of the element showing the template
Rect(l, t, w, h) == [left |-> Num(l), top |-> Num(t), width |-> w, height |-> h]

NoRect == [left |-> NaN, top |-> NaN, width |-> NaN, height |-> NaN]

\* faulty variant: the pointer offset is scaled by display / native
toTemplateSpaceShrinking(e, rect, nativeWidth, nativeHeight) ==
    [x |-> Times(Minus(e.clientX, rect.left), Over(rect.width, nativeWidth)),
     y |-> Times(Minus(e.clientY, rect.top), Over(rect.height, nativeHeight))]

\* (e.clientX - rect.left) * scaleX, (e.clientY - rect.top) * scaleY with
\* scaleX = nativeWidth / rect.width, scaleY = nativeHeight / rect.height
toTemplateSpace(e, rect, nativeWidth, nativeHeight) ==
    LET scaleX == Over(nativeWidth, rect.width)
        scaleY == Over(nativeHeight, rect.height)
    IN  [x |-> Times(Minus(e.clientX, rect.left), scaleX),
         y |-> Times(Minus(e.clientY, rect.top), scaleY)]

\* the overlays' placement of a template position: x * scaleX, y * scaleY
\* with scaleX = rect.width / nativeWidth, scaleY = rect.height / nativeHeight
toDisplaySpace(pos, rect, nativeWidth, nativeHeight) ==
    LET scaleX == Over(rect.width, nativeWidth)
        scaleY == Over(rect.height, nativeHeight)
    IN  [x |-> Times(pos.x, scaleX), y |-> Times(pos.y, scaleY)]

\* a CSS length: a NaN or negative box size is no size, a NaN offset is auto
\* (the static position, the origin of the positioned surface)
CssSize(a) == IF IsNaN(a) \/ Less(a, Num(0)) THEN Num(0) ELSE a

CssOffset(a) == IF IsNaN(a) THEN Num(0) ELSE a

\* whether the pointer is on the box placed at (left, top) of the rect
OnBox(e, rect, box) ==
    LET px == Minus(e.clientX, rect.left)
        py == Minus(e.clientY, rect.top)
    IN  /\ LessEq(Num(0), px) /\ LessEq(px, rect.width)
        /\ LessEq(Num(0), py) /\ LessEq(py, rect.height)
        /\ LessEq(CssOffset(box.left), px)
        /\ LessEq(px, Plus(CssOffset(box.left), CssSize(box.width)))
        /\ LessEq(CssOffset(box.top), py)
        /\ LessEq(py, Plus(CssOffset(box.top), CssSize(box.height)))

\* FieldDesigner: the style of a field's box over the image
FD_box(field, imageRect, tpl) ==
    LET scaleX == Over(imageRect.width, tpl.width)
        scaleY == Over(imageRect.height, tpl.height)
        effectiveWidth == FD_getEffectiveWidth(field)
    IN  [left |-> Times(field.x, scaleX), top |-> Times(field.y, scaleY),
         width |-> Times(effectiveWidth, scaleX),
         height |-> Times(field.height, scaleY)]

\* CertificateGenerator.renderEditOverlay: the style of a field's box
CG_box(field, canvasRect, canvasSize, certificateData) ==
    LET scaleX == Over(canvasRect.width, canvasSize.width)
        scaleY == Over(canvasRect.height, canvasSize.height)
        effectiveWidth == CG_getEffectiveWidth(field, certificateData)
    IN  [left |-> Times(field.x, scaleX), top |-> Times(field.y, scaleY),
         width |-> Times(effectiveWidth, scaleX),
         height |-> Times(field.height, scaleY)]

\* the margins handleMouseMove keeps to the right and bottom edges
MinFieldWidth == 50

MinFieldHeight == 20

\* faulty variant: no lower clamp
DragPositionUpperOnly(value, limit, margin) ==
    MathMin(Minus(limit, Num(margin)), value)

\* faulty variant: no clamp
DragPositionUnclamped(value, limit, margin) == value

\* Math.max(0, Math.min(limit - margin, value))
DragPosition(value, limit, margin) ==
    MathMax(Num(0), MathMin(Minus(limit, Num(margin)), value))

Log(op, id, updates, e, rect) ==
    [op |-> op, id |-> id, updates |-> updates, e |-> e, rect |-> rect]

---------------------------------------------------------------------------
(* Inputs                                                                  *)

MaxFields == 2

MaxSteps == 4

Templates ==
    {[width |-> Num(1000), height |-> Num(600)], [width |-> Num(40), height |-> Num(15)]}

\* the element showing the template keeps its aspect ratio: a template
\* larger than the element's max-height is shrunk (to 1/2 or 3/10 here), a
\* small one is shown at its native size
DisplayRects(tpl) ==
    IF Less(Num(300), tpl.width)
    THEN {Rect(0, 0, Over(tpl.width, Num(2)), Over(tpl.height, Num(2))),
          Rect(10, 20, Times(tpl.width, Frac(3, 10)), Times(tpl.height, Frac(3, 10)))}
    ELSE {Rect(0, 0, tpl.width, tpl.height), Rect(10, 20, tpl.width, tpl.height)}

Pointers == {Pointer(5, 5), Pointer(60, 55), Pointer(500, 300)}

\* what the property panel's inputs can hand to updateField
LabelInputs == {sEmpty, sName, sTitle}

XInputs == {NaN, Num(-5), Num(0)}

YInputs == {Num(0), Num(700)}

WidthInputs == {Num(50)}

HeightInputs == {Num(40)}

FontSizeInputs == {NaN, Num(0), Num(24)}

FontFamilies == {"Arial", "Courier New"}

Aligns == {"left", "center", "right"}

Colors == {"#000000", "#ff0000"}

\* the updates the property panel produces for the selected field: an input
\* fires onChange with a value other than the one it shows
PanelUpdates(selectedFieldData) ==
    {[label |-> v] : v \in LabelInputs \ {selectedFieldData.label}}
    \cup {[x |-> v] : v \in XInputs \ {selectedFieldData.x}}
    \cup {[y |-> v] : v \in YInputs \ {selectedFieldData.y}}
    \cup {[autoWidth |-> ~selectedFieldData.autoWidth]}
    \cup (IF selectedFieldData.autoWidth THEN {}
          ELSE {[width |-> v, autoWidth |-> FALSE] :
                    v \in WidthInputs \ {selectedFieldData.width}})
    \cup {[height |-> v] : v \in HeightInputs \ {selectedFieldData.height}}
    \cup {[fontSize |-> v] : v \in FontSizeInputs \ {selectedFieldData.fontSize}}
    \cup {[fontFamily |-> v] : v \in FontFamilies \ {selectedFieldData.fontFamily}}
    \cup {[align |-> v] : v \in Aligns \ {selectedFieldData.align}}
    \cup {[color |-> v] : v \in Colors \ {selectedFieldData.color}}

---------------------------------------------------------------------------
(* FieldDesigner (the design step)                                         *)

FD_unchanged ==
    UNCHANGED <<currentStep, template, data, editableFields, previewIndex,
                isEditMode, isGenerating, generatedCount, canvas, exported, run, saved,
                detectedColumns, showColumnMapping, loads, orphans, parses>>

\* faulty variant: the label numbers the new field with the count of the
\* fields before it
FD_newFieldNumberedFromZero(now, count) ==
    [id |-> <<now>>,
     label |-> <<"F", "i", "e", "l", "d", " ">> \o NatToString(count),
     x |-> Num(100), y |-> Num(100), width |-> Num(2500), height |-> Num(300),
     fontSize |-> Num(200), fontFamily |-> "Arial", color |-> "#000000",
     align |-> "center", autoWidth |-> FALSE]

FD_newField(now, count) ==
    [id |-> <<now>>,
     label |-> <<"F", "i", "e", "l", "d", " ">> \o NatToString(count + 1),
     x |-> Num(100), y |-> Num(100), width |-> Num(2500), height |-> Num(300),
     fontSize |-> Num(200), fontFamily |-> "Arial", color |-> "#000000",
     align |-> "center", autoWidth |-> FALSE]

FD_addField ==
    /\ currentStep = "design"
    /\ steps < MaxSteps /\ steps' = steps + 1
    /\ Len(fields) < MaxFields
    /\ \E now \in {clock, clock + 1} :
        LET newField == FD_newField(now, Len(fields))
        IN  /\ clock' = now
            /\ fields' = Append(fields, newField)
            /\ selectedField' = newField.id
            /\ last' = Log("addField", newField.id, NoUpdates, NoEvent, NoRect)
    /\ UNCHANGED <<isDragging, dragOffset>>
    /\ FD_unchanged

\* an input of the property panel, shown while the selected field exists
FD_panelEdit ==
    /\ currentStep = "design"
    /\ steps < MaxSteps /\ steps' = steps + 1
    /\ selectedField # NoField /\ Find(fields, selectedField) # <<>>
    /\ \E updates \in PanelUpdates(Head(Find(fields, selectedField))) :
        /\ fields' = FD_updateField(fields, selectedField, updates)
        /\ last' = Log("updateField", selectedField, updates, NoEvent, NoRect)
    /\ UNCHANGED <<selectedField, isDragging, dragOffset, clock>>
    /\ FD_unchanged

FD_deleteField ==
    /\ currentStep = "design"
    /\ steps < MaxSteps /\ steps' = steps + 1
    /\ selectedField # NoField /\ Find(fields, selectedField) # <<>>
    /\ fields' = SelectSeq(fields, LAMBDA field : field.id # selectedField)
    /\ selectedField' = NoField
    /\ last' = Log("deleteField", selectedField, NoUpdates, NoEvent, NoRect)
    /\ UNCHANGED <<isDragging, dragOffset, clock>>
    /\ FD_unchanged

\* a click on an entry of the fields list
FD_selectField ==
    /\ currentStep = "design"
    /\ steps < MaxSteps /\ steps' = steps + 1
    /\ \E i \in 1..Len(fields) :
        /\ selectedField' = fields[i].id
        /\ last' = Log("setSelectedField", fields[i].id, NoUpdates, NoEvent, NoRect)
    /\ UNCHANGED <<fields, isDragging, dragOffset, clock>>
    /\ FD_unchanged

\* mousedown on the box of a field; a box whose top is NaN lies below the
\* image, where the container clips it
FD_handleMouseDown ==
    /\ currentStep = "design"
    /\ steps < MaxSteps /\ steps' = steps + 1
    /\ \E i \in 1..Len(fields), e \in Pointers, imageRect \in DisplayRects(template) :
        LET fieldId == fields[i].id
            field == Head(Find(fields, fieldId))
            relative == toTemplateSpace(e, imageRect, template.width, template.height)
        IN  /\ ~IsNaN(fields[i].y)
            /\ OnBox(e, imageRect, FD_box(fields[i], imageRect, template))
            /\ selectedField' = fieldId
            /\ isDragging' = TRUE
            /\ dragOffset' = [x |-> Minus(relative.x, field.x),
                              y |-> Minus(relative.y, field.y)]
            /\ last' = Log("handleMouseDown", fieldId, NoUpdates, e, imageRect)
    /\ UNCHANGED <<fields, clock>>
    /\ FD_unchanged

\* mousemove over the container, which is as large as the image
FD_handleMouseMove ==
    /\ currentStep = "design"
    /\ steps < MaxSteps /\ steps' = steps + 1
    /\ \E e \in Pointers, imageRect \in DisplayRects(template) :
        /\ OnBox(e, imageRect, [left |-> Num(0), top |-> Num(0),
                                width |-> imageRect.width, height |-> imageRect.height])
        /\ IF ~isDragging \/ selectedField = NoField
           THEN /\ last' = Log("handleMouseMove", NoField, NoUpdates, NoEvent, NoRect)
                /\ UNCHANGED fields
           ELSE LET relative == toTemplateSpace(e, imageRect, template.width, template.height)
                    x == DragPosition(Minus(relative.x, dragOffset.x), template.width,
                                      MinFieldWidth)
                    y == DragPosition(Minus(relative.y, dragOffset.y), template.height,
                                      MinFieldHeight)
                    updates == [x |-> x, y |-> y]
                IN  /\ fields' = FD_updateField(fields, selectedField, updates)
                    /\ last' = Log("handleMouseMove", selectedField, updates, e, imageRect)
    /\ UNCHANGED <<selectedField, isDragging, dragOffset, clock>>
    /\ FD_unchanged

\* faulty variant: mouseup leaves the drag pending
FD_handleMouseUpPending ==
    /\ currentStep = "design"
    /\ steps < MaxSteps /\ steps' = steps + 1
    /\ last' = Log("handleMouseUp", NoField, NoUpdates, NoEvent, NoRect)
    /\ UNCHANGED <<fields, selectedField, isDragging, dragOffset, clock>>
    /\ FD_unchanged

\* mouseup on the container, or the pointer leaving it
FD_handleMouseUp ==
    /\ currentStep = "design"
    /\ steps < MaxSteps /\ steps' = steps + 1
    /\ isDragging' = FALSE
    /\ last' = Log("handleMouseUp", NoField, NoUpdates, NoEvent, NoRect)
    /\ UNCHANGED <<fields, selectedField, dragOffset, clock>>
    /\ FD_unchanged

InitDesign ==
    /\ currentStep = "design"
    /\ template \in Templates
    /\ fields = <<>>
    /\ data = <<>>
    /\ selectedField = NoField
    /\ isDragging = FALSE
    /\ dragOffset = [x |-> Num(0), y |-> Num(0)]
    /\ editableFields = <<>>
    /\ previewIndex = 0
    /\ isEditMode = FALSE
    /\ isGenerating = FALSE
    /\ generatedCount = 0
    /\ canvas = NoSurface
    /\ exported = <<>>
    /\ run = NoRun
    /\ saved = <<>>
    /\ detectedColumns = <<>>
    /\ showColumnMapping = FALSE
    /\ loads = {}
    /\ orphans = <<>>
    /\ parses = {}
    /\ clock = 0
    /\ steps = 0
    /\ last = Log("mount", NoField, NoUpdates, NoEvent, NoRect)

NextDesign ==
    \/ FD_addField
    \/ FD_panelEdit
    \/ FD_deleteField
    \/ FD_selectField
    \/ FD_handleMouseDown
    \/ FD_handleMouseMove
    \/ FD_handleMouseUp

---------------------------------------------------------------------------
(* CertificateGenerator (the generate step)                                *)

Field(id, label, x, y, width, height, fontSize, fontFamily, align) ==
    [id |-> id, label |-> label, x |-> Num(x), y |-> Num(y), width |-> Num(width),
     height |-> Num(height), fontSize |-> Num(fontSize), fontFamily |-> fontFamily,
     color |-> "#000000", align |-> align, autoWidth |-> FALSE]

NameField == Field(<<0>>, sName, 100, 100, 300, 40, 24, "Arial", "center")

CornerField == Field(<<1>>, sCourse, 0, 0, 50, 30, 20, "Courier New", "left")

\* DataImport.autoMapFields: one field per detected column; the fields carry
\* no autoWidth property, which every reader takes as false
autoMapFields(columns, now) ==
    [k \in 1..Len(columns) |->
        LET index == k - 1
        IN  [id |-> <<now, index>>,
             label |-> columns[k],
             x |-> Num(100 + (index % 2) * 300),
             y |-> Num(150 + (index \div 2) * 80),
             width |-> Num(250), height |-> Num(40), fontSize |-> Num(18),
             fontFamily |-> "Arial", color |-> "#000000", align |-> "center",
             autoWidth |-> FALSE]]

\* field collections the design and import steps hand over
PropFields ==
    {autoMapFields(<<sName, sCourse>>, 0),
     <<FD_updatedField([NameField EXCEPT !.align = "right"], [autoWidth |-> TRUE])>>,
     <<CornerField, FD_updatedField(NameField, [autoWidth |-> TRUE])>>,
     <<FD_updatedField(NameField, [x |-> NaN])>>}

\* imported rows
PropData ==
    {<<(sName :> sAnn), (sName :> sBeatrice)>>,
     <<(sName :> sEmpty) @@ (sCourse :> sWeb), (sName :> sAnn) @@ (sCourse :> sEmpty)>>}

\* the effect that follows a change of editableFields or previewIndex calls
\* renderPreview, so the handlers that change them leave the canvas redrawn
CG_unchanged ==
    UNCHANGED <<currentStep, template, fields, data, isGenerating, generatedCount,
                exported, run, saved, detectedColumns, showColumnMapping, clock,
                loads, orphans, parses>>

\* the Edit Fields / Exit Edit button
CG_toggleEditMode ==
    /\ currentStep = "generate"
    /\ steps < MaxSteps /\ steps' = steps + 1
    /\ isEditMode' = ~isEditMode
    /\ last' = Log("setIsEditMode", NoField, NoUpdates, NoEvent, NoRect)
    /\ UNCHANGED <<editableFields, previewIndex, selectedField, isDragging, dragOffset,
                   canvas>>
    /\ CG_unchanged

\* the Reset button, shown in edit mode
CG_resetFields ==
    /\ currentStep = "generate"
    /\ steps < MaxSteps /\ steps' = steps + 1
    /\ isEditMode
    /\ editableFields' = fields
    /\ selectedField' = NoField
    /\ last' = Log("resetFields", NoField, NoUpdates, NoEvent, NoRect)
    /\ canvas' = renderPreview(template, editableFields', RowAt(data, previewIndex))
    /\ UNCHANGED <<previewIndex, isEditMode, isDragging, dragOffset>>
    /\ CG_unchanged

\* the preview row select
CG_setPreviewIndex ==
    /\ currentStep = "generate"
    /\ steps < MaxSteps /\ steps' = steps + 1
    /\ \E index \in 0..(Len(data) - 1) :
        /\ index # previewIndex
        /\ previewIndex' = index
    /\ last' = Log("setPreviewIndex", NoField, NoUpdates, NoEvent, NoRect)
    /\ canvas' = renderPreview(template, editableFields, RowAt(data, previewIndex'))
    /\ UNCHANGED <<editableFields, isEditMode, selectedField, isDragging, dragOffset>>
    /\ CG_unchanged

\* faulty variant: the edit is written to the session's field collection too
CG_panelEditWritesThrough ==
    /\ currentStep = "generate"
    /\ steps < MaxSteps /\ steps' = steps + 1
    /\ isEditMode
    /\ selectedField # NoField /\ Find(editableFields, selectedField) # <<>>
    /\ \E updates \in PanelUpdates(Head(Find(editableFields, selectedField))) :
        /\ editableFields' = CG_updateField(editableFields, selectedField, updates,
                                            RowAt(data, previewIndex))
        /\ last' = Log("updateField", selectedField, updates, NoEvent, NoRect)
    /\ fields' = editableFields'
    /\ canvas' = renderPreview(template, editableFields', RowAt(data, previewIndex))
    /\ UNCHANGED <<previewIndex, isEditMode, selectedField, isDragging, dragOffset>>
    /\ UNCHANGED <<currentStep, template, data, isGenerating, generatedCount,
                   exported, run, saved, detectedColumns, showColumnMapping, clock,
                   loads, orphans, parses>>

\* an input of the property panel, shown in edit mode while the selected
\* field exists
CG_panelEdit ==
    /\ currentStep = "generate"
    /\ steps < MaxSteps /\ steps' = steps + 1
    /\ isEditMode
    /\ selectedField # NoField /\ Find(editableFields, selectedField) # <<>>
    /\ \E updates \in PanelUpdates(Head(Find(editableFields, selectedField))) :
        /\ editableFields' = CG_updateField(editableFields, selectedField, updates,
                                            RowAt(data, previewIndex))
        /\ last' = Log("updateField", selectedField, updates, NoEvent, NoRect)
    /\ canvas' = renderPreview(template, editableFields', RowAt(data, previewIndex))
    /\ UNCHANGED <<previewIndex, isEditMode, selectedField, isDragging, dragOffset>>
    /\ CG_unchanged

\* mousedown on a box of the edit overlay, which is rendered in edit mode;
\* the overlay's origin is taken to be the canvas's (the canvas fills its wrapper)
CG_handleMouseDown ==
    /\ currentStep = "generate"
    /\ steps < MaxSteps /\ steps' = steps + 1
    /\ isEditMode
    /\ \E i \in 1..Len(editableFields), e \in Pointers, canvasRect \in DisplayRects(template) :
        LET fieldId == editableFields[i].id
            field == Head(Find(editableFields, fieldId))
            relative == toTemplateSpace(e, canvasRect, canvas.width, canvas.height)
        IN  /\ OnBox(e, canvasRect,
                     CG_box(editableFields[i], canvasRect, canvas, RowAt(data, previewIndex)))
            /\ IF ~isEditMode
               THEN UNCHANGED <<selectedField, isDragging, dragOffset>>
               ELSE /\ selectedField' = fieldId
                    /\ isDragging' = TRUE
                    /\ dragOffset' = [x |-> Minus(relative.x, field.x),
                                      y |-> Minus(relative.y, field.y)]
            /\ last' = Log("handleMouseDown", fieldId, NoUpdates, e, canvasRect)
    /\ UNCHANGED <<editableFields, previewIndex, isEditMode, canvas>>
    /\ CG_unchanged

\* faulty variant: the pointer is mapped with the display rect of the event
\* before, where that event measured one
CG_handleMouseMoveCachedRect ==
    /\ currentStep = "generate"
    /\ steps < MaxSteps /\ steps' = steps + 1
    /\ \E e \in Pointers, canvasRect \in DisplayRects(template) :
        IF ~isDragging \/ selectedField = NoField
        THEN /\ last' = Log("handleMouseMove", NoField, NoUpdates, NoEvent, NoRect)
             /\ UNCHANGED editableFields
        ELSE LET cached == IF last.rect # NoRect THEN last.rect ELSE canvasRect
                 relative == toTemplateSpace(e, cached, canvas.width, canvas.height)
                 x == DragPosition(Minus(relative.x, dragOffset.x), template.width,
                                   MinFieldWidth)
                 y == DragPosition(Minus(relative.y, dragOffset.y), template.height,
                                   MinFieldHeight)
                 updates == [x |-> x, y |-> y]
             IN  /\ editableFields' = CG_updateField(editableFields, selectedField, updates,
                                                     RowAt(data, previewIndex))
                 /\ last' = Log("handleMouseMove", selectedField, updates, e, canvasRect)
    /\ canvas' = renderPreview(template, editableFields', RowAt(data, previewIndex))
    /\ UNCHANGED <<previewIndex, isEditMode, selectedField, isDragging, dragOffset>>
    /\ CG_unchanged

\* mousemove over the container, which is wider than the canvas
CG_handleMouseMove ==
    /\ currentStep = "generate"
    /\ steps < MaxSteps /\ steps' = steps + 1
    /\ \E e \in Pointers, canvasRect \in DisplayRects(template) :
        IF ~isDragging \/ selectedField = NoField
        THEN /\ last' = Log("handleMouseMove", NoField, NoUpdates, NoEvent, NoRect)
             /\ UNCHANGED editableFields
        ELSE LET relative == toTemplateSpace(e, canvasRect, canvas.width, canvas.height)
                 x == DragPosition(Minus(relative.x, dragOffset.x), template.width,
                                   MinFieldWidth)
                 y == DragPosition(Minus(relative.y, dragOffset.y), template.height,
                                   MinFieldHeight)
                 updates == [x |-> x, y |-> y]
             IN  /\ editableFields' = CG_updateField(editableFields, selectedField, updates,
                                                     RowAt(data, previewIndex))
                 /\ last' = Log("handleMouseMove", selectedField, updates, e, canvasRect)
    /\ canvas' = renderPreview(template, editableFields', RowAt(data, previewIndex))
    /\ UNCHANGED <<previewIndex, isEditMode, selectedField, isDragging, dragOffset>>
    /\ CG_unchanged

\* mouseup on the container, or the pointer leaving it
CG_handleMouseUp ==
    /\ currentStep = "generate"
    /\ steps < MaxSteps /\ steps' = steps + 1
    /\ isDragging' = FALSE
    /\ last' = Log("handleMouseUp", NoField, NoUpdates, NoEvent, NoRect)
    /\ UNCHANGED <<editableFields, previewIndex, isEditMode, selectedField, dragOffset,
                   canvas>>
    /\ CG_unchanged

---------------------------------------------------------------------------
(* Export.  generateAllCertificates is an async function: it suspends at   *)
(* each await, and the image's load event, the toBlob callback and the     *)
(* archive's completion run as steps of their own.  The closure it runs in *)
(* keeps the editableFields of the render in which the button was clicked. *)

sCertificateDash == <<"c", "e", "r", "t", "i", "f", "i", "c", "a", "t", "e", "-">>
sCertificateSpace == <<"C", "e", "r", "t", "i", "f", "i", "c", "a", "t", "e", " ">>
sDotPng == <<".", "p", "n", "g">>
sUndefined == <<"u", "n", "d", "e", "f", "i", "n", "e", "d">>

\* the characters /[^a-zA-Z0-9-_]/ does not match
FileNameChars ==
    {UpperCase[k] : k \in 1..Len(UpperCase)} \cup {LowerCase[k] : k \in 1..Len(LowerCase)}
    \cup {DigitChars[k] : k \in 1..Len(DigitChars)} \cup {"-", "_"}

\* faulty variant: the file name is used as it is
keepFileName(fileName) == fileName

\* fileName.replace(/[^a-zA-Z0-9-_]/g, '_')
sanitizeFileName(fileName) ==
    [k \in 1..Len(fileName) |-> IF fileName[k] \in FileNameChars THEN fileName[k] ELSE "_"]

\* editableFields[0]?.label used as a property key
titleKey(flds) == IF flds = <<>> THEN sUndefined ELSE flds[1].label

\* the name of row i's entry: `${sanitizedFileName}.png`
certificateFileName(flds, certificateData, i) ==
    LET value == Cell(certificateData, titleKey(flds))
        fileName == IF value # sEmpty THEN value ELSE sCertificateDash \o NatToString(i + 1)
    IN  sanitizeFileName(fileName) \o sDotPng

\* the text of row index's option in the Preview select
previewOptionText(flds, item, index) ==
    LET value == Cell(item, titleKey(flds))
    IN  IF value # sEmpty THEN value ELSE sCertificateSpace \o NatToString(index + 1)

\* what toBlob hands to its callback: the PNG of the surface, or null
PngOf(surface) == [png |-> TRUE, surface |-> surface]
NoBlob == [png |-> FALSE, surface |-> NoSurface]

\* JSZip.file(name, content): the archive keeps one entry per name, a second
\* file() with a name replaces the entry's content
zipFile(zip, name, entry) ==
    IF \E k \in 1..Len(zip) : zip[k].name = name
    THEN [k \in 1..Len(zip) |-> IF zip[k].name = name THEN entry ELSE zip[k]]
    ELSE Append(zip, entry)

\* one generateCertificateImage call the run is suspended on: waiting for the
\* image's load event ("load"), for the toBlob callback ("encode"), or for a
\* load event that will not come ("stalled")
Render(row, stage, surface) == [row |-> row, stage |-> stage, surface |-> surface]

\* faulty variant: every row's render is started when the run starts
startRowsAtOnce(i, total) == IF i = 0 THEN 0..(total - 1) ELSE {}

\* the for loop at index i: the rows whose render it starts
startRows(i, total) == IF i < total THEN {i} ELSE {}

\* faulty variant: the count is that of the rows before row i
progressBefore(i) == i

\* setGeneratedCount(i + 1) once row i is in the archive
progressAfter(i) == i + 1

\* the Generate & Download button, shown while no run is in progress and
\* disabled in edit mode: the function runs up to its first await
CG_generateAllCertificates ==
    /\ currentStep = "generate"
    /\ steps < MaxSteps /\ steps' = steps + 1
    /\ ~isEditMode /\ ~isGenerating
    /\ isGenerating' = TRUE
    /\ generatedCount' = 0
    /\ run' = [phase |-> IF 0 < Len(data) THEN "rows" ELSE "archiving",
               flds |-> editableFields,
               pending |-> {Render(i, "load", NoSurface) : i \in startRows(0, Len(data))},
               zip |-> <<>>, added |-> <<>>, surfaces |-> <<>>, failed |-> {}]
    /\ last' = Log("generateAllCertificates", NoField, NoUpdates, NoEvent, NoRect)
    /\ UNCHANGED <<editableFields, previewIndex, isEditMode, selectedField, isDragging,
                   dragOffset, canvas, exported, saved>>
    /\ UNCHANGED <<currentStep, template, fields, data, detectedColumns,
                   showColumnMapping, clock, loads, orphans, parses>>

CG_runUnchanged ==
    UNCHANGED <<currentStep, template, fields, data, selectedField, isDragging,
                dragOffset, editableFields, previewIndex, isEditMode, canvas,
                detectedColumns, showColumnMapping, clock, steps, last, loads,
                orphans, parses>>

\* faulty variant: the row is drawn with the field collection of the render
\* at the time the image has loaded
CG_imageLoadedCurrentFields ==
    /\ currentStep = "generate"
    /\ \E p \in run.pending :
        /\ p.stage = "load"
        /\ LET surface == generateCertificateImage(template, editableFields,
                                                   RowAt(data, p.row))
           IN  run' = [run EXCEPT !.pending = (@ \ {p}) \cup {Render(p.row, "encode", surface)},
                                  !.surfaces = Append(@, surface)]
    /\ UNCHANGED <<isGenerating, generatedCount, exported, saved>>
    /\ CG_runUnchanged

\* img.onload of generateCertificateImage: the row is drawn on its own canvas
\* and toBlob is called
CG_imageLoaded ==
    /\ currentStep = "generate"
    /\ \E p \in run.pending :
        /\ p.stage = "load"
        /\ LET surface == generateCertificateImage(template, run.flds, RowAt(data, p.row))
           IN  run' = [run EXCEPT !.pending = (@ \ {p}) \cup {Render(p.row, "encode", surface)},
                                  !.surfaces = Append(@, surface)]
    /\ UNCHANGED <<isGenerating, generatedCount, exported, saved>>
    /\ CG_runUnchanged

\* the image fails to load: the Image has no onerror handler, the promise of
\* generateCertificateImage is never settled
CG_imageFailed ==
    /\ currentStep = "generate"
    /\ \E p \in run.pending :
        /\ p.stage = "load"
        /\ run' = [run EXCEPT !.pending = (@ \ {p}) \cup {Render(p.row, "stalled", NoSurface)},
                              !.failed = @ \cup {p.row}]
    /\ UNCHANGED <<isGenerating, generatedCount, exported, saved>>
    /\ CG_runUnchanged

\* the toBlob callback resolves the promise with the blob or with null, and
\* the loop body goes on: file name, zip.file, setGeneratedCount, next row.
\* Given null, zip.file stores an empty entry or throws (the function has no
\* try/catch: its promise is rejected and nothing after the throw runs)
CG_toBlobCallback(p, outcome) ==
    /\ p.stage = "encode"
    /\ LET blob == IF outcome = "blob" THEN PngOf(p.surface) ELSE NoBlob
           name == certificateFileName(run.flds, RowAt(data, p.row), p.row)
           failed == IF outcome = "blob" THEN run.failed ELSE run.failed \cup {p.row}
       IN  IF outcome = "null thrown"
           THEN /\ run' = [run EXCEPT !.phase = "rejected", !.pending = @ \ {p},
                                      !.failed = failed]
                /\ UNCHANGED generatedCount
           ELSE /\ run' = [run EXCEPT
                        !.phase = IF p.row + 1 < Len(data) THEN "rows" ELSE "archiving",
                        !.pending = (@ \ {p})
                            \cup {Render(i, "load", NoSurface) :
                                    i \in startRows(p.row + 1, Len(data))},
                        !.zip = zipFile(@, name, [name |-> name, row |-> p.row,
                                                  blob |-> blob]),
                        !.added = Append(@, p.row),
                        !.failed = failed]
                /\ generatedCount' = progressAfter(p.row)
    /\ UNCHANGED <<isGenerating, exported, saved>>
    /\ CG_runUnchanged

\* toBlob encodes the canvas
CG_blobEncoded ==
    /\ currentStep = "generate"
    /\ \E p \in run.pending : CG_toBlobCallback(p, "blob")

\* toBlob cannot encode the canvas and passes null
CG_blobMissing ==
    /\ currentStep = "generate"
    /\ \E p \in run.pending, outcome \in {"null stored", "null thrown"} :
        CG_toBlobCallback(p, outcome)

\* after the loop: zip.generateAsync, saveAs(zipBlob, 'certificates.zip'),
\* setIsGenerating(false)
CG_archiveGenerated ==
    /\ currentStep = "generate"
    /\ run.phase = "archiving"
    /\ saved' = Append(saved, run.zip)
    /\ exported' = run.surfaces
    /\ isGenerating' = FALSE
    /\ run' = [run EXCEPT !.phase = "idle"]
    /\ UNCHANGED generatedCount
    /\ CG_runUnchanged

\* CertificateGenerator mounted with the session's template, fields and rows;
\* the mount effect's renderPreview call has drawn the first row
InitGenerate ==
    /\ currentStep = "generate"
    /\ template \in Templates
    /\ fields \in PropFields
    /\ data \in PropData
    /\ selectedField = NoField
    /\ isDragging = FALSE
    /\ dragOffset = [x |-> Num(0), y |-> Num(0)]
    /\ editableFields = fields
    /\ previewIndex = 0
    /\ isEditMode = FALSE
    /\ isGenerating = FALSE
    /\ generatedCount = 0
    /\ canvas = renderPreview(template, editableFields, RowAt(data, previewIndex))
    /\ exported = <<>>
    /\ run = NoRun
    /\ saved = <<>>
    /\ detectedColumns = <<>>
    /\ showColumnMapping = FALSE
    /\ loads = {}
    /\ orphans = <<>>
    /\ parses = {}
    /\ clock = 0
    /\ steps = 0
    /\ last = Log("mount", NoField, NoUpdates, NoEvent, NoRect)

NextGenerate ==
    \/ CG_toggleEditMode
    \/ CG_resetFields
    \/ CG_setPreviewIndex
    \/ CG_panelEdit
    \/ CG_handleMouseDown
    \/ CG_handleMouseMove
    \/ CG_handleMouseUp
    \/ CG_generateAllCertificates
    \/ CG_imageLoaded
    \/ CG_imageFailed
    \/ CG_blobEncoded
    \/ CG_blobMissing
    \/ CG_archiveGenerated

---------------------------------------------------------------------------
(* The wizard with the design step or the generate step mounted            *)

Init == InitDesign \/ InitGenerate

Next == NextDesign \/ NextGenerate

Spec == Init /\ [][Next]_vars

---------------------------------------------------------------------------
(* The wizard's navigation: App moves between the design, data and         *)
(* generate steps and keeps fields and data across them; each step's       *)
(* component is mounted with fresh local state.  Here the design step adds,*)
(* edits and deletes fields and the data step imports files.               *)

\* value.toString().trim() === ''
IsBlank(value) == \A k \in 1..Len(value) : value[k] = " "

\* what Papa.parse hands to complete: the rows keyed by the header's columns,
\* and whether it reported errors
ParsedFile(columns, rows, errors) == [columns |-> columns, rows |-> rows, errors |-> errors]

Files ==
    {ParsedFile(<<sName>>, <<(sName :> sAnn), (sName :> sBeatrice)>>, FALSE),
     ParsedFile(<<sName, sCourse>>,
                <<(sName :> sEmpty) @@ (sCourse :> sEmpty),
                  (sName :> sAnn) @@ (sCourse :> sWeb)>>, FALSE),
     ParsedFile(<<sTitle>>, <<(sTitle :> sWeb)>>, FALSE),
     ParsedFile(<<sName>>, <<(sName :> <<" ">>)>>, FALSE),
     ParsedFile(<<sName>>, <<(sName :> sAnn)>>, TRUE)}

\* csvData.filter(row => Object.values(row).some(value => value && ...))
validRows(rows) ==
    SelectSeq(rows, LAMBDA row : \E c \in DOMAIN row : ~IsBlank(row[c]))

\* Object.keys(validData[0] || {}).filter(key => key.trim() !== '')
columnsOf(file, validData) ==
    SelectSeq(file.columns, LAMBDA key : key \in DOMAIN validData[1] /\ ~IsBlank(key))

\* fieldLabels.filter(field => !columns.includes(field))
missingFields(flds, columns) ==
    {flds[i].label : i \in 1..Len(flds)} \ {columns[k] : k \in 1..Len(columns)}

\* the Papa.parse calls of a DataImport that is unmounted: their complete
\* callbacks still run, the state setters of the unmounted component do nothing
Unmounted(pending) == {[p EXCEPT !.mounted = FALSE] : p \in pending}

WZ_unchanged ==
    UNCHANGED <<template, exported, run, saved, loads, orphans, parses>>

\* FieldDesigner's Continue to Data Import button, disabled without fields:
\* DataImport is mounted
APP_handleNextFromDesign ==
    /\ currentStep = "design"
    /\ Len(fields) # 0
    /\ currentStep' = "data"
    /\ detectedColumns' = <<>>
    /\ showColumnMapping' = FALSE
    /\ last' = Log("handleNextFromDesign", NoField, NoUpdates, NoEvent, NoRect)
    /\ UNCHANGED <<fields, data, selectedField, isDragging, dragOffset, editableFields,
                   previewIndex, isEditMode, isGenerating, generatedCount, canvas,
                   clock, steps>>
    /\ WZ_unchanged

\* DataImport's Back button: FieldDesigner is mounted
APP_handleBackToDesign ==
    /\ currentStep = "data"
    /\ currentStep' = "design"
    /\ selectedField' = NoField
    /\ isDragging' = FALSE
    /\ dragOffset' = [x |-> Num(0), y |-> Num(0)]
    /\ last' = Log("handleBackToDesign", NoField, NoUpdates, NoEvent, NoRect)
    /\ UNCHANGED <<fields, data, editableFields, previewIndex, isEditMode, isGenerating,
                   generatedCount, canvas, detectedColumns, showColumnMapping, clock,
                   steps>>
    /\ parses' = Unmounted(parses)
    /\ UNCHANGED <<template, exported, run, saved, loads, orphans>>

\* DataImport's Generate Certificates button, disabled without rows:
\* CertificateGenerator is mounted and its effect renders the first row
APP_handleNextFromData ==
    /\ currentStep = "data"
    /\ Len(data) # 0
    /\ currentStep' = "generate"
    /\ selectedField' = NoField
    /\ isDragging' = FALSE
    /\ dragOffset' = [x |-> Num(0), y |-> Num(0)]
    /\ editableFields' = fields
    /\ previewIndex' = 0
    /\ isEditMode' = FALSE
    /\ isGenerating' = FALSE
    /\ generatedCount' = 0
    /\ canvas' = renderPreview(template, fields, RowAt(data, 0))
    /\ last' = Log("handleNextFromData", NoField, NoUpdates, NoEvent, NoRect)
    /\ UNCHANGED <<fields, data, detectedColumns, showColumnMapping, clock, steps>>
    /\ parses' = Unmounted(parses)
    /\ UNCHANGED <<template, exported, run, saved, loads, orphans>>

\* a generateAllCertificates call that has not returned: it is suspended on
\* an await
Suspended(r) == r.phase \in {"rows", "archiving"}

\* CertificateGenerator's Back to Data button: DataImport is mounted.  The
\* generator is unmounted; nothing cancels a generateAllCertificates call
\* that is suspended, it goes on in the closure of the unmounted generator
APP_handleBackToData ==
    /\ currentStep = "generate"
    /\ currentStep' = "data"
    /\ detectedColumns' = <<>>
    /\ showColumnMapping' = FALSE
    /\ last' = Log("handleBackToData", NoField, NoUpdates, NoEvent, NoRect)
    /\ IF Suspended(run)
       THEN orphans' = Append(orphans, run) /\ run' = NoRun
       ELSE UNCHANGED <<orphans, run>>
    /\ UNCHANGED <<fields, data, selectedField, isDragging, dragOffset, editableFields,
                   previewIndex, isEditMode, isGenerating, generatedCount, canvas,
                   clock, steps>>
    /\ UNCHANGED <<template, exported, saved, loads, parses>>

\* a file dropped on or chosen in the upload area, which is shown while
\* there are no rows: Papa.parse's complete callback
DI_processFile ==
    /\ currentStep = "data"
    /\ steps < MaxSteps /\ steps' = steps + 1
    /\ Len(data) = 0
    /\ \E file \in Files :
        LET validData == validRows(file.rows)
            columns == columnsOf(file, validData)
        IN  IF file.errors \/ Len(validData) = 0
            THEN /\ detectedColumns' = <<>>
                 /\ UNCHANGED <<showColumnMapping, data>>
            ELSE /\ detectedColumns' = columns
                 /\ IF Len(fields) = 0
                    THEN showColumnMapping' = TRUE /\ data' = validData
                    ELSE IF missingFields(fields, columns) # {}
                    THEN showColumnMapping' = TRUE /\ UNCHANGED data
                    ELSE UNCHANGED showColumnMapping /\ data' = validData
    /\ last' = Log("processFile", NoField, NoUpdates, NoEvent, NoRect)
    /\ UNCHANGED <<currentStep, fields, selectedField, isDragging, dragOffset,
                   editableFields, previewIndex, isEditMode, isGenerating,
                   generatedCount, canvas, clock>>
    /\ WZ_unchanged

\* the column mapping's Auto-Create button: the fields are replaced by one
\* field per detected column
DI_autoMapFields ==
    /\ currentStep = "data"
    /\ steps < MaxSteps /\ steps' = steps + 1
    /\ showColumnMapping /\ Len(detectedColumns) > 0
    /\ \E now \in {clock, clock + 1} :
        /\ clock' = now
        /\ fields' = autoMapFields(detectedColumns, now)
    /\ showColumnMapping' = FALSE
    /\ last' = Log("autoMapFields", NoField, NoUpdates, NoEvent, NoRect)
    /\ UNCHANGED <<currentStep, data, selectedField, isDragging, dragOffset,
                   editableFields, previewIndex, isEditMode, isGenerating,
                   generatedCount, canvas, detectedColumns>>
    /\ WZ_unchanged

\* the Upload Different File button, shown while there are rows
DI_uploadDifferentFile ==
    /\ currentStep = "data"
    /\ steps < MaxSteps /\ steps' = steps + 1
    /\ Len(data) # 0
    /\ data' = <<>>
    /\ detectedColumns' = <<>>
    /\ showColumnMapping' = FALSE
    /\ last' = Log("uploadDifferentFile", NoField, NoUpdates, NoEvent, NoRect)
    /\ UNCHANGED <<currentStep, fields, selectedField, isDragging, dragOffset,
                   editableFields, previewIndex, isEditMode, isGenerating,
                   generatedCount, canvas, clock>>
    /\ WZ_unchanged

\* img.onload of a generateCertificateImage call of an unmounted generator
BG_imageLoaded ==
    /\ \E k \in 1..Len(orphans) : \E p \in orphans[k].pending :
        /\ p.stage = "load"
        /\ LET surface == generateCertificateImage(template, orphans[k].flds,
                                                   RowAt(data, p.row))
           IN  orphans' = [orphans EXCEPT
                    ![k].pending = (@ \ {p}) \cup {Render(p.row, "encode", surface)},
                    ![k].surfaces = Append(@, surface)]
    /\ UNCHANGED <<currentStep, template, fields, data, selectedField, isDragging,
                   dragOffset, editableFields, previewIndex, isEditMode, isGenerating,
                   generatedCount, canvas, loads, exported, run, saved, detectedColumns,
                   showColumnMapping, clock, steps, last, parses>>

\* the toBlob callback of an unmounted generator's run: the loop body goes
\* on; setGeneratedCount on the unmounted component changes nothing
BG_blobEncoded ==
    /\ \E k \in 1..Len(orphans) : \E p \in orphans[k].pending :
        /\ p.stage = "encode"
        /\ LET name == certificateFileName(orphans[k].flds, RowAt(data, p.row), p.row)
           IN  orphans' = [orphans EXCEPT
                    ![k].phase = IF p.row + 1 < Len(data) THEN "rows" ELSE "archiving",
                    ![k].pending = (@ \ {p})
                        \cup {Render(i, "load", NoSurface) :
                                i \in startRows(p.row + 1, Len(data))},
                    ![k].zip = zipFile(@, name, [name |-> name, row |-> p.row,
                                                 blob |-> PngOf(p.surface)]),
                    ![k].added = Append(@, p.row)]
    /\ UNCHANGED <<currentStep, template, fields, data, selectedField, isDragging,
                   dragOffset, editableFields, previewIndex, isEditMode, isGenerating,
                   generatedCount, canvas, loads, exported, run, saved, detectedColumns,
                   showColumnMapping, clock, steps, last, parses>>

\* an unmounted generator's run after its loop: zip.generateAsync, saveAs;
\* setIsGenerating on the unmounted component changes nothing
BG_archiveGenerated ==
    /\ \E k \in 1..Len(orphans) :
        /\ orphans[k].phase = "archiving"
        /\ saved' = Append(saved, orphans[k].zip)
        /\ orphans' = SubSeq(orphans, 1, k - 1) \o SubSeq(orphans, k + 1, Len(orphans))
    /\ UNCHANGED <<currentStep, template, fields, data, selectedField, isDragging,
                   dragOffset, editableFields, previewIndex, isEditMode, isGenerating,
                   generatedCount, canvas, loads, exported, run, detectedColumns,
                   showColumnMapping, clock, steps, last, parses>>

NextWizard ==
    \/ FD_addField
    \/ FD_panelEdit
    \/ FD_deleteField
    \/ APP_handleNextFromDesign
    \/ APP_handleBackToDesign
    \/ DI_processFile
    \/ DI_autoMapFields
    \/ DI_uploadDifferentFile
    \/ APP_handleNextFromData
    \/ APP_handleBackToData

SpecWizard == InitDesign /\ [][NextWizard]_vars

---------------------------------------------------------------------------
(* The generate step left and entered again while an export runs: the data *)
(* step and the generate step with the Generate & Download button, over    *)
(* fields and rows that stay as they are.                                  *)

InitSession ==
    /\ InitGenerate
    /\ template.width = Num(1000)
    /\ Len(fields) = 1 /\ fields[1].x # NaN

NextSession ==
    \/ CG_toggleEditMode
    \/ CG_generateAllCertificates
    \/ CG_imageLoaded
    \/ CG_blobEncoded
    \/ CG_archiveGenerated
    \/ APP_handleBackToData
    \/ APP_handleNextFromData
    \/ BG_imageLoaded
    \/ BG_blobEncoded
    \/ BG_archiveGenerated

SpecSession == InitSession /\ [][NextSession]_vars

---------------------------------------------------------------------------
(* The whole project: the upload, design, data and generate steps with the *)
(* template chosen and changed, fields added and deleted, files imported   *)
(* and the project reset.  Papa.parse reads a File asynchronously: its      *)
(* complete callback is a step of its own, which may come after other      *)
(* files were dropped and after DataImport was unmounted.  The template's  *)
(* image is taken to load at once.                                         *)

\* App's template state before an upload and after Change Template: null
NoTemplate == [width |-> NaN, height |-> NaN]

PJ_components ==
    <<selectedField, isDragging, dragOffset, editableFields, previewIndex, isEditMode,
      isGenerating, generatedCount, canvas, loads, detectedColumns, showColumnMapping>>

\* TemplateUpload.handleFileUpload with an image file, and the image's load
\* event: the upload area is shown while there is no template
TU_handleFileUpload ==
    /\ currentStep = "upload"
    /\ steps < MaxSteps /\ steps' = steps + 1
    /\ template = NoTemplate
    /\ template' \in Templates
    /\ last' = Log("handleTemplateUpload", NoField, NoUpdates, NoEvent, NoRect)
    /\ UNCHANGED <<currentStep, fields, data, exported, run, orphans, saved, parses, clock>>
    /\ UNCHANGED PJ_components

\* the Change Template link, shown while there is a template
TU_changeTemplate ==
    /\ currentStep = "upload"
    /\ steps < MaxSteps /\ steps' = steps + 1
    /\ template # NoTemplate
    /\ template' = NoTemplate
    /\ last' = Log("changeTemplate", NoField, NoUpdates, NoEvent, NoRect)
    /\ UNCHANGED <<currentStep, fields, data, exported, run, orphans, saved, parses, clock>>
    /\ UNCHANGED PJ_components

\* the Continue to Design button, shown while there is a template:
\* FieldDesigner is mounted
APP_handleNextFromUpload ==
    /\ currentStep = "upload"
    /\ template # NoTemplate
    /\ currentStep' = "design"
    /\ selectedField' = NoField
    /\ isDragging' = FALSE
    /\ dragOffset' = [x |-> Num(0), y |-> Num(0)]
    /\ last' = Log("handleNextFromUpload", NoField, NoUpdates, NoEvent, NoRect)
    /\ UNCHANGED <<template, fields, data, editableFields, previewIndex, isEditMode,
                   isGenerating, generatedCount, canvas, loads, exported, run, orphans,
                   saved, detectedColumns, showColumnMapping, parses, clock, steps>>

\* FieldDesigner's Back button: TemplateUpload is mounted
APP_handleBackToUpload ==
    /\ currentStep = "design"
    /\ currentStep' = "upload"
    /\ last' = Log("handleBackToUpload", NoField, NoUpdates, NoEvent, NoRect)
    /\ UNCHANGED <<template, fields, data, exported, run, orphans, saved, parses, clock,
                   steps>>
    /\ UNCHANGED PJ_components

\* CertificateGenerator's Start New Project button: the session is cleared
\* and TemplateUpload is mounted; a suspended export run goes on
APP_handleReset ==
    /\ currentStep = "generate"
    /\ currentStep' = "upload"
    /\ template' = NoTemplate
    /\ fields' = <<>>
    /\ data' = <<>>
    /\ IF Suspended(run)
       THEN orphans' = Append(orphans, run) /\ run' = NoRun
       ELSE UNCHANGED <<orphans, run>>
    /\ last' = Log("handleReset", NoField, NoUpdates, NoEvent, NoRect)
    /\ UNCHANGED <<exported, saved, parses, clock, steps>>
    /\ UNCHANGED PJ_components

\* a file dropped on the upload area, which is shown while there are no
\* rows, or chosen in it: processFile up to the Papa.parse call, whose
\* callback closes over the fields of this render
DI_parseStarted ==
    /\ currentStep = "data"
    /\ steps < MaxSteps /\ steps' = steps + 1
    /\ Len(data) = 0
    /\ \E file \in Files :
        parses' = parses \cup {[file |-> file, flds |-> fields, mounted |-> TRUE]}
    /\ detectedColumns' = <<>>
    /\ last' = Log("processFile", NoField, NoUpdates, NoEvent, NoRect)
    /\ UNCHANGED <<currentStep, template, fields, data, selectedField, isDragging,
                   dragOffset, editableFields, previewIndex, isEditMode, isGenerating,
                   generatedCount, canvas, loads, exported, run, orphans, saved,
                   showColumnMapping, clock>>

\* the preview after the rows changed under a mounted generator: the effect
\* calls renderPreview; with no row at previewIndex the onload handler
\* throws at the first field, after the template was drawn
previewOfRows(tpl, flds, rows, index) ==
    IF RowAt(rows, index).defined \/ flds = <<>>
    THEN renderPreview(tpl, flds, RowAt(rows, index))
    ELSE [rendered |-> TRUE, width |-> tpl.width, height |-> tpl.height, draws |-> <<>>]

\* Papa.parse's complete callback of one of the pending calls, whichever
\* completes first
DI_parseCompleted ==
    /\ \E p \in parses :
        LET validData == validRows(p.file.rows)
            columns == columnsOf(p.file, validData)
        IN  /\ parses' = parses \ {p}
            /\ IF p.file.errors \/ Len(validData) = 0
               THEN UNCHANGED <<detectedColumns, showColumnMapping, data>>
               ELSE /\ detectedColumns' = IF p.mounted THEN columns ELSE detectedColumns
                    /\ IF Len(p.flds) = 0
                       THEN /\ showColumnMapping' = (p.mounted \/ showColumnMapping)
                            /\ data' = validData
                       ELSE IF missingFields(p.flds, columns) # {}
                       THEN /\ showColumnMapping' = (p.mounted \/ showColumnMapping)
                            /\ UNCHANGED data
                       ELSE UNCHANGED showColumnMapping /\ data' = validData
    /\ canvas' = IF currentStep = "generate" /\ data' # data /\ Len(data') > 0
                 THEN previewOfRows(template, editableFields, data', previewIndex)
                 ELSE canvas
    /\ UNCHANGED <<currentStep, template, fields, selectedField, isDragging, dragOffset,
                   editableFields, previewIndex, isEditMode, isGenerating,
                   generatedCount, loads, exported, run, orphans, saved, clock, steps,
                   last>>

\* DataImport mounted after the design step, with no rows imported yet
InitProject ==
    /\ currentStep = "data"
    /\ template \in Templates
    /\ fields \in {flds \in PropFields : Len(flds) = 1 /\ flds[1].x # NaN}
    /\ data = <<>>
    /\ selectedField = NoField
    /\ isDragging = FALSE
    /\ dragOffset = [x |-> Num(0), y |-> Num(0)]
    /\ editableFields = <<>>
    /\ previewIndex = 0
    /\ isEditMode = FALSE
    /\ isGenerating = FALSE
    /\ generatedCount = 0
    /\ canvas = NoSurface
    /\ exported = <<>>
    /\ run = NoRun
    /\ saved = <<>>
    /\ detectedColumns = <<>>
    /\ showColumnMapping = FALSE
    /\ loads = {}
    /\ orphans = <<>>
    /\ parses = {}
    /\ clock = 0
    /\ steps = 0
    /\ last = Log("mount", NoField, NoUpdates, NoEvent, NoRect)

NextProject ==
    \/ TU_handleFileUpload
    \/ TU_changeTemplate
    \/ APP_handleNextFromUpload
    \/ APP_handleBackToUpload
    \/ FD_addField
    \/ FD_selectField
    \/ FD_deleteField
    \/ APP_handleNextFromDesign
    \/ APP_handleBackToDesign
    \/ DI_parseStarted
    \/ DI_parseCompleted
    \/ DI_autoMapFields
    \/ DI_uploadDifferentFile
    \/ APP_handleNextFromData
    \/ APP_handleBackToData
    \/ CG_setPreviewIndex
    \/ APP_handleReset

SpecProject == InitProject /\ [][NextProject]_vars

---------------------------------------------------------------------------
(* The render pipeline on its own: the generate step over a wider range of *)
(* field collections, previewing rows and exporting them, in a browser     *)
(* that loads the template image and encodes every canvas.                 *)

\* fields as the design step leaves them
RenderFields ==
    {CornerField}
    \cup {[NameField EXCEPT !.label = label, !.width = width, !.align = align] :
            label \in {sName, sTitle}, width \in {Num(300), Num(50)}, align \in Aligns}
    \cup {FD_updatedField([NameField EXCEPT !.label = label, !.align = align],
                          [autoWidth |-> TRUE]) :
            label \in {sName, sTitle}, align \in Aligns}

RenderCollections ==
    {<<field>> : field \in RenderFields}
    \cup {<<first, [field EXCEPT !.id = <<2>>]>> :
            first \in {CornerField,
                       FD_updatedField([NameField EXCEPT !.align = "right"],
                                       [autoWidth |-> TRUE])},
            field \in RenderFields}

InitRender ==
    /\ currentStep = "generate"
    /\ template \in Templates
    /\ fields \in RenderCollections
    /\ data \in PropData
    /\ selectedField = NoField
    /\ isDragging = FALSE
    /\ dragOffset = [x |-> Num(0), y |-> Num(0)]
    /\ editableFields = fields
    /\ previewIndex = 0
    /\ isEditMode = FALSE
    /\ isGenerating = FALSE
    /\ generatedCount = 0
    /\ canvas = renderPreview(template, editableFields, RowAt(data, previewIndex))
    /\ exported = <<>>
    /\ run = NoRun
    /\ saved = <<>>
    /\ detectedColumns = <<>>
    /\ showColumnMapping = FALSE
    /\ loads = {}
    /\ orphans = <<>>
    /\ parses = {}
    /\ clock = 0
    /\ steps = 0
    /\ last = Log("mount", NoField, NoUpdates, NoEvent, NoRect)

NextRender ==
    \/ CG_setPreviewIndex
    \/ CG_generateAllCertificates
    \/ CG_imageLoaded
    \/ CG_blobEncoded
    \/ CG_archiveGenerated

SpecRender == InitRender /\ [][NextRender]_vars

---------------------------------------------------------------------------
(* The export run on its own: the generate step with the Generate &        *)
(* Download button and the Preview select, in a browser whose image loads  *)
(* and canvas encodings may fail.  In the fair specification the browser   *)
(* delivers every event it owes: a load or error event for an image whose  *)
(* src is set, the toBlob callback, the archive's completion; the user     *)
(* owes nothing.                                                           *)

sAB == <<"A", " ", "B">>
sA_B == <<"A", "_", "B">>

ExportCollections ==
    {<<NameField>>,
     <<CornerField, FD_updatedField(NameField, [autoWidth |-> TRUE])>>,
     autoMapFields(<<sName, sCourse>>, 0)}

ExportData ==
    PropData
    \cup {<<(sName :> sAB) @@ (sCourse :> sWeb), (sName :> sEmpty) @@ (sCourse :> sWeb),
            (sName :> sA_B) @@ (sCourse :> sWeb)>>}

InitExport ==
    /\ currentStep = "generate"
    /\ template \in {tpl \in Templates : tpl.width = Num(1000)}
    /\ fields \in ExportCollections
    /\ data \in ExportData
    /\ selectedField = NoField
    /\ isDragging = FALSE
    /\ dragOffset = [x |-> Num(0), y |-> Num(0)]
    /\ editableFields = fields
    /\ previewIndex = 0
    /\ isEditMode = FALSE
    /\ isGenerating = FALSE
    /\ generatedCount = 0
    /\ canvas = renderPreview(template, editableFields, RowAt(data, previewIndex))
    /\ exported = <<>>
    /\ run = NoRun
    /\ saved = <<>>
    /\ detectedColumns = <<>>
    /\ showColumnMapping = FALSE
    /\ loads = {}
    /\ orphans = <<>>
    /\ parses = {}
    /\ clock = 0
    /\ steps = 0
    /\ last = Log("mount", NoField, NoUpdates, NoEvent, NoRect)

NextExport ==
    \/ CG_setPreviewIndex
    \/ CG_generateAllCertificates
    \/ CG_imageLoaded
    \/ CG_imageFailed
    \/ CG_blobEncoded
    \/ CG_blobMissing
    \/ CG_archiveGenerated

SpecExport == InitExport /\ [][NextExport]_vars

\* the same under the browser's obligations, for one field and two rows
InitExportFair ==
    /\ InitExport
    /\ fields = <<NameField>>
    /\ Len(data) = 2

SpecExportFair ==
    /\ InitExportFair
    /\ [][NextExport]_vars
    /\ WF_vars(CG_imageLoaded \/ CG_imageFailed)
    /\ WF_vars(CG_blobEncoded \/ CG_blobMissing)
    /\ WF_vars(CG_archiveGenerated)

---------------------------------------------------------------------------
(* The preview with its image loads pending.  renderPreview sets the size  *)
(* of the canvas at once and draws in the onload handler of the Image it   *)
(* creates; the handler draws the fields and the row of the render that    *)
(* called renderPreview.  The effect calls renderPreview after every       *)
(* change of editableFields or previewIndex and cancels nothing, and        *)
(* nothing orders the load events of two Images.                           *)

\* canvas.width = template.width; canvas.height = template.height: the
\* canvas is cleared and its context reset
previewCleared(tpl) ==
    [rendered |-> FALSE, width |-> tpl.width, height |-> tpl.height, draws |-> <<>>]

\* the effect: if (data.length > 0) renderPreview(), which creates an Image
\* whose onload closes over the render's editableFields and data[previewIndex]
previewLoads(started, flds, rows, index) ==
    IF Len(rows) > 0
    THEN {[started |-> started, flds |-> flds, certificateData |-> RowAt(rows, index)]}
    ELSE {}

\* the font of the canvas's context: the last one a draw left, the default
\* after canvas.width was set
previewFont(surface) ==
    IF surface.draws = <<>> THEN DefaultFont
    ELSE surface.draws[Len(surface.draws)].font

\* img.onload: clearRect, drawImage, then the forEach over the closure's
\* editableFields with the closure's certificateData
previewOnload(load, surface) ==
    [rendered |-> TRUE, width |-> surface.width, height |-> surface.height,
     draws |-> CG_previewDraws(load.flds, load.certificateData, previewFont(surface))]

\* the preview select, followed by the effect's renderPreview call
PV_setPreviewIndex ==
    /\ currentStep = "generate"
    /\ steps < MaxSteps /\ steps' = steps + 1
    /\ \E index \in 0..(Len(data) - 1) :
        /\ index # previewIndex
        /\ previewIndex' = index
    /\ last' = Log("setPreviewIndex", NoField, NoUpdates, NoEvent, NoRect)
    /\ canvas' = IF Len(data) > 0 THEN previewCleared(template) ELSE canvas
    /\ loads' = loads \cup previewLoads(steps', editableFields, data, previewIndex')
    /\ UNCHANGED <<editableFields, isEditMode, selectedField, isDragging, dragOffset>>
    /\ UNCHANGED <<currentStep, template, fields, data, isGenerating, generatedCount,
                   exported, run, saved, detectedColumns, showColumnMapping, clock,
                   orphans, parses>>

\* an input of the property panel, followed by the effect's renderPreview call
PV_panelEdit ==
    /\ currentStep = "generate"
    /\ steps < MaxSteps /\ steps' = steps + 1
    /\ isEditMode
    /\ selectedField # NoField /\ Find(editableFields, selectedField) # <<>>
    /\ \E updates \in PanelUpdates(Head(Find(editableFields, selectedField))) :
        /\ editableFields' = CG_updateField(editableFields, selectedField, updates,
                                            RowAt(data, previewIndex))
        /\ last' = Log("updateField", selectedField, updates, NoEvent, NoRect)
    /\ canvas' = IF Len(data) > 0 THEN previewCleared(template) ELSE canvas
    /\ loads' = loads \cup previewLoads(steps', editableFields', data, previewIndex)
    /\ UNCHANGED <<previewIndex, isEditMode, selectedField, isDragging, dragOffset>>
    /\ UNCHANGED <<currentStep, template, fields, data, isGenerating, generatedCount,
                   exported, run, saved, detectedColumns, showColumnMapping, clock,
                   orphans, parses>>

\* the load event of one of the pending Images, whichever comes first
PV_imageLoaded ==
    /\ currentStep = "generate"
    /\ \E load \in loads :
        /\ canvas' = previewOnload(load, canvas)
        /\ loads' = loads \ {load}
    /\ UNCHANGED <<currentStep, template, fields, data, selectedField, isDragging,
                   dragOffset, editableFields, previewIndex, isEditMode, isGenerating,
                   generatedCount, exported, run, saved, detectedColumns,
                   showColumnMapping, clock, steps, last, orphans, parses>>

\* CertificateGenerator mounted: the mount effect has called renderPreview
\* and the first row's image load is pending
InitPreview ==
    /\ currentStep = "generate"
    /\ template \in {tpl \in Templates : tpl.width = Num(1000)}
    /\ fields \in {flds \in PropFields : flds[1].label = sName /\ flds[1].x # NaN}
    /\ data \in PropData
    /\ selectedField = NoField
    /\ isDragging = FALSE
    /\ dragOffset = [x |-> Num(0), y |-> Num(0)]
    /\ editableFields = fields
    /\ previewIndex = 0
    /\ isEditMode = FALSE
    /\ isGenerating = FALSE
    /\ generatedCount = 0
    /\ canvas = previewCleared(template)
    /\ loads = previewLoads(0, editableFields, data, previewIndex)
    /\ orphans = <<>>
    /\ parses = {}
    /\ exported = <<>>
    /\ run = NoRun
    /\ saved = <<>>
    /\ detectedColumns = <<>>
    /\ showColumnMapping = FALSE
    /\ clock = 0
    /\ steps = 0
    /\ last = Log("mount", NoField, NoUpdates, NoEvent, NoRect)

NextPreview ==
    \/ CG_toggleEditMode
    \/ CG_handleMouseDown
    \/ PV_setPreviewIndex
    \/ PV_panelEdit
    \/ PV_imageLoaded

SpecPreview == InitPreview /\ [][NextPreview]_vars

---------------------------------------------------------------------------
(* Properties of the render pipeline (checked under SpecRender)            *)

SameDraw(a, b) ==
    /\ a.font = b.font /\ a.fillStyle = b.fillStyle /\ a.textAlign = b.textAlign
    /\ a.text = b.text /\ a.x = b.x /\ a.y = b.y

\* C1: once the rows are exported, the preview of the selected row and the
\* export of that row are both surfaces of the template's native size, and
\* both issue one text draw per field, in collection order, with the same
\* font, color, alignment, text, anchorX and anchorY
PreviewExportParity ==
    exported # <<>> =>
        LET export == exported[previewIndex + 1]
        IN  /\ canvas.rendered /\ export.rendered
            /\ canvas.width = template.width /\ canvas.height = template.height
            /\ export.width = template.width /\ export.height = template.height
            /\ Len(canvas.draws) = Len(editableFields)
            /\ Len(export.draws) = Len(editableFields)
            /\ \A i \in 1..Len(editableFields) :
                /\ SameDraw(canvas.draws[i], export.draws[i])
                /\ canvas.draws[i].fillStyle = editableFields[i].color
                /\ canvas.draws[i].textAlign = editableFields[i].align
                /\ canvas.draws[i].text =
                       Cell(RowAt(data, previewIndex), editableFields[i].label)

\* the second row previewed and exported, with a right-aligned auto-width
\* field whose text is not empty among two fields
PreviewExportParityWitness ==
    /\ exported # <<>> /\ previewIndex = 1 /\ Len(editableFields) = 2
    /\ \E i \in 1..Len(editableFields) :
        /\ editableFields[i].autoWidth
        /\ editableFields[i].align = "right"
        /\ canvas.draws[i].text # sEmpty

ExampleExported ==
    /\ template = [width |-> Num(1000), height |-> Num(600)]
    /\ editableFields = <<NameField>>
    /\ data = <<(sName :> sAnn), (sName :> sBeatrice)>>
    /\ exported # <<>>

ExampleDrawnAt(x, y) ==
    /\ Len(exported) = 2
    /\ \A r \in 1..2 :
        /\ Len(exported[r].draws) = 1
        /\ exported[r].draws[1].x = Num(x)
        /\ exported[r].draws[1].y = Num(y)
    /\ exported[1].draws[1].text = sAnn
    /\ exported[2].draws[1].text = sBeatrice

\* C2 (as stated): the export of the example (1000x600 template, the field
\* Name at x 100, y 100, width 300, height 40, fontSize 24, centered, not
\* auto-width, rows Ann and Beatrice Montgomery) draws both texts at
\* anchor (250, 108)
ExampleAnchoredAt108 == ExampleExported => ExampleDrawnAt(250, 108)

\* C2 (amended): the export of the example draws "Ann" and "Beatrice
\* Montgomery" at anchor (250, 128): 100 + 40/2 + 24/3 = 128
ExampleAnchoredAt128 == ExampleExported => ExampleDrawnAt(250, 128)

\* the example's rows have been exported
ExampleExportedWitness == ExampleExported /\ generatedCount = 2

\* C3: a field with autoWidth = false is laid out with its stored width: by
\* the designer, by the preview and by the export of every row, whether the
\* row's text for the field is empty, absent or non-empty
ManualWidthIsEffectiveWidth ==
    \A i \in 1..Len(editableFields) :
        ~editableFields[i].autoWidth =>
            /\ FD_getEffectiveWidth(editableFields[i]) = editableFields[i].width
            /\ canvas.draws[i].effectiveWidth = editableFields[i].width
            /\ \A r \in 1..Len(exported) :
                exported[r].draws[i].effectiveWidth = editableFields[i].width

\* exported rows in which one manual-width field has a text in one row and
\* an empty text in the other, and another manual-width field has no column
ManualWidthWitness ==
    /\ exported # <<>> /\ Len(data) = 2
    /\ \E i, j \in 1..Len(editableFields) :
        /\ ~editableFields[i].autoWidth /\ ~editableFields[j].autoWidth
        /\ exported[1].draws[i].text # sEmpty
        /\ exported[2].draws[i].text = sEmpty
        /\ editableFields[i].label \in DOMAIN data[2]
        /\ editableFields[j].label \notin DOMAIN data[1]

\* the least integer that is no less than a
RoundedUp(a, k) ==
    /\ ~IsNaN(k) /\ k.d = 1
    /\ LessEq(a, k) /\ Less(k, Plus(a, Num(1)))

\* the effective width is the text's measure at the field's font, rounded up
\* to an integer, plus 20
MeasuredPlusPadding(field, text, effectiveWidth) ==
    RoundedUp(measureText([size |-> field.fontSize, family |-> field.fontFamily], text),
              Minus(effectiveWidth, Num(20)))

\* C4: a field with autoWidth = true whose text in the rendered row is not
\* empty is laid out, in the preview and in the export of every row, with the
\* measured width of that text at the field's fontSize and fontFamily,
\* rounded up to an integer, plus 20, whatever its stored width
AutoWidthIsMeasuredWidth ==
    \A i \in 1..Len(editableFields) :
        editableFields[i].autoWidth =>
            /\ canvas.draws[i].text # sEmpty =>
                 MeasuredPlusPadding(editableFields[i], canvas.draws[i].text,
                                     canvas.draws[i].effectiveWidth)
            /\ \A r \in 1..Len(exported) :
                 exported[r].draws[i].text # sEmpty =>
                     MeasuredPlusPadding(editableFields[i], exported[r].draws[i].text,
                                         exported[r].draws[i].effectiveWidth)

\* an exported row whose auto-width field has a text of fractional measure
\* and an effective width other than the stored one
AutoWidthWitness ==
    /\ exported # <<>>
    /\ \E r \in 1..Len(exported), i \in 1..Len(editableFields) :
        /\ editableFields[i].autoWidth
        /\ exported[r].draws[i].text # sEmpty
        /\ measureText([size |-> editableFields[i].fontSize,
                        family |-> editableFields[i].fontFamily],
                       exported[r].draws[i].text).d # 1
        /\ exported[r].draws[i].effectiveWidth # editableFields[i].width

\* C5: a field whose text is empty or absent (there is no data row, or the
\* row has no value or an empty value for the field's label) is laid out
\* with its stored width, even when autoWidth is true
EmptyTextKeepsStoredWidth ==
    \A i \in 1..Len(editableFields) :
        /\ CG_getEffectiveWidth(editableFields[i], Undefined) = editableFields[i].width
        /\ canvas.draws[i].text = sEmpty =>
             canvas.draws[i].effectiveWidth = editableFields[i].width
        /\ \A r \in 1..Len(exported) :
             exported[r].draws[i].text = sEmpty =>
                 exported[r].draws[i].effectiveWidth = editableFields[i].width

\* an exported row in which one auto-width field has an empty value and
\* another auto-width field has no column
EmptyTextWitness ==
    /\ exported # <<>>
    /\ \E r \in 1..Len(exported), i, j \in 1..Len(editableFields) :
        /\ editableFields[i].autoWidth /\ editableFields[j].autoWidth
        /\ editableFields[i].label \in DOMAIN data[r]
        /\ exported[r].draws[i].text = sEmpty
        /\ editableFields[j].label \notin DOMAIN data[r]
        /\ exported[r].draws[j].effectiveWidth = editableFields[j].width

ExpectedAnchorX(field, effectiveWidth) ==
    CASE field.align = "left" -> field.x
      [] field.align = "center" -> Plus(field.x, Over(effectiveWidth, Num(2)))
      [] field.align = "right" -> Plus(field.x, effectiveWidth)

\* C6: every text draw of the preview and of the export is anchored at
\* field.x for align left, field.x + effectiveWidth/2 for center and
\* field.x + effectiveWidth for right (x 100 and effective width 50 give 100,
\* 125 and 150)
AnchorXFollowsAlign ==
    \A i \in 1..Len(editableFields) :
        /\ canvas.draws[i].x =
               ExpectedAnchorX(editableFields[i],
                   CG_getEffectiveWidth(editableFields[i], RowAt(data, previewIndex)))
        /\ \A r \in 1..Len(exported) :
               exported[r].draws[i].x =
                   ExpectedAnchorX(editableFields[i],
                       CG_getEffectiveWidth(editableFields[i], RowAt(data, r - 1)))
        /\ (editableFields[i].x = Num(100) /\ canvas.draws[i].effectiveWidth = Num(50)) =>
               canvas.draws[i].x =
                   CASE editableFields[i].align = "left" -> Num(100)
                     [] editableFields[i].align = "center" -> Num(125)
                     [] editableFields[i].align = "right" -> Num(150)

\* an export with a right-aligned auto-width field drawn at x + its measured
\* width and a centered field of x 100 and width 50 drawn at 125
AnchorXWitness ==
    /\ exported # <<>>
    /\ \E r \in 1..Len(exported), i, j \in 1..Len(editableFields) :
        /\ editableFields[i].autoWidth /\ editableFields[i].align = "right"
        /\ exported[r].draws[i].text # sEmpty
        /\ Less(editableFields[i].x, exported[r].draws[i].x)
        /\ editableFields[j].align = "center" /\ editableFields[j].x = Num(100)
        /\ exported[r].draws[j].effectiveWidth = Num(50)
        /\ exported[r].draws[j].x = Num(125)

\* C7: every text draw of the preview and of the export has
\* y = field.y + field.height/2 + field.fontSize/3, whatever the field's
\* alignment, text and autoWidth
AnchorYIsMidlinePlusThirdOfFontSize ==
    \A i \in 1..Len(editableFields) :
        LET y == Plus(Plus(editableFields[i].y, Over(editableFields[i].height, Num(2))),
                      Over(editableFields[i].fontSize, Num(3)))
        IN  /\ canvas.draws[i].y = y
            /\ \A r \in 1..Len(exported) : exported[r].draws[i].y = y

\* an export of two fields that differ in alignment and autoWidth, one with a
\* text and one without, one of them anchored at a fractional y
AnchorYWitness ==
    /\ exported # <<>> /\ Len(editableFields) = 2
    /\ editableFields[1].align # editableFields[2].align
    /\ editableFields[1].autoWidth # editableFields[2].autoWidth
    /\ \E r \in 1..Len(exported) :
        /\ exported[r].draws[1].text # sEmpty
        /\ exported[r].draws[2].text = sEmpty
        /\ exported[r].draws[1].y.d # 1

---------------------------------------------------------------------------
(* Properties of placement (checked under Spec)                            *)

\* the field collection of the mounted step
Placed == IF currentStep = "design" THEN fields ELSE editableFields

\* the last handler was a mousemove that moved the field last.id
Dragged == last.op = "handleMouseMove" /\ last.id # NoField

\* the pointer's template position minus dragOffset, from what that
\* mousemove read
DragTarget ==
    LET relative == toTemplateSpace(last.e, last.rect, template.width, template.height)
    IN  [x |-> Minus(relative.x, dragOffset.x), y |-> Minus(relative.y, dragOffset.y)]

\* value is a clamped to [lo, hi]
ClampedTo(value, a, lo, hi) ==
    /\ Less(a, lo) => value = lo
    /\ Less(hi, a) => value = hi
    /\ (LessEq(lo, a) /\ LessEq(a, hi)) => value = a

\* C8 (as stated): a mousemove while dragging leaves the dragged field's x
\* at (pointer template x - dragOffset.x) clamped to [0, templateWidth - 50]
\* and its y at (pointer template y - dragOffset.y) clamped to
\* [0, templateHeight - 20], for every template size
DragClampsToTemplateLessMinimum ==
    Dragged =>
        \A i \in 1..Len(Placed) :
            Placed[i].id = last.id =>
                /\ ClampedTo(Placed[i].x, DragTarget.x, Num(0),
                             Minus(template.width, Num(50)))
                /\ ClampedTo(Placed[i].y, DragTarget.y, Num(0),
                             Minus(template.height, Num(20)))

\* what max(0, min(hi, a)) is: NaN for a NaN a, 0 when a or hi is negative,
\* hi when a exceeds a hi that is not negative, a otherwise
DragResult(a, hi) ==
    IF IsNaN(a) THEN NaN
    ELSE IF Less(a, Num(0)) \/ Less(hi, Num(0)) THEN Num(0)
    ELSE IF Less(hi, a) THEN hi
    ELSE a

\* C8 (amended): a mousemove while dragging leaves the dragged field's x at
\* max(0, min(templateWidth - 50, pointer template x - dragOffset.x)) and its
\* y at max(0, min(templateHeight - 20, pointer template y - dragOffset.y)):
\* clamped to [0, templateWidth - 50] x [0, templateHeight - 20] when the
\* template is at least 50 wide and 20 high, 0 on an axis where the template
\* is smaller than that, and NaN on an axis where the computed position is NaN
DragClampsWithZeroFloor ==
    Dragged =>
        \A i \in 1..Len(Placed) :
            Placed[i].id = last.id =>
                /\ Placed[i].x = DragResult(DragTarget.x, Minus(template.width, Num(50)))
                /\ Placed[i].y = DragResult(DragTarget.y, Minus(template.height, Num(20)))

\* a field dragged beyond templateWidth - 50 on a template narrower than 50
DragOnNarrowTemplateWitness ==
    /\ Dragged
    /\ Less(template.width, Num(50))
    /\ Less(Minus(template.width, Num(50)), DragTarget.x)
    /\ \E i \in 1..Len(Placed) : Placed[i].id = last.id /\ Placed[i].x = Num(0)

Within(a, lo, hi) == LessEq(lo, a) /\ LessEq(a, hi)

\* C9 (as stated): whatever operations have run, every field's position lies
\* within [0, templateWidth] x [0, templateHeight]
PositionsWithinTemplate ==
    \A i \in 1..Len(Placed) :
        /\ Within(Placed[i].x, Num(0), template.width)
        /\ Within(Placed[i].y, Num(0), template.height)

\* C9 (amended): right after a mousemove while dragging, each coordinate of
\* the dragged field lies within [0, templateWidth] (x) or
\* [0, templateHeight] (y), unless the computed position on that axis is NaN,
\* and then the coordinate is NaN
DraggedPositionWithinTemplate ==
    Dragged =>
        \A i \in 1..Len(Placed) :
            Placed[i].id = last.id =>
                /\ IF IsNaN(DragTarget.x) THEN IsNaN(Placed[i].x)
                   ELSE Within(Placed[i].x, Num(0), template.width)
                /\ IF IsNaN(DragTarget.y) THEN IsNaN(Placed[i].y)
                   ELSE Within(Placed[i].y, Num(0), template.height)

\* a field of the design step dragged beyond the right and bottom edges and
\* left at (templateWidth - 50, templateHeight - 20)
DraggedToCornerWitness ==
    /\ currentStep = "design" /\ Dragged
    /\ \E i \in 1..Len(Placed) :
        /\ Placed[i].id = last.id
        /\ Placed[i].x = Minus(template.width, Num(50))
        /\ Placed[i].y = Minus(template.height, Num(20))
        /\ Less(Placed[i].x, DragTarget.x) /\ Less(Placed[i].y, DragTarget.y)

\* the text the field is bound to: the preview row's value for its label in
\* the generate step, the placeholder for its label in the design step
BindingText(field) ==
    IF currentStep = "design" THEN getDummyText(field.label)
    ELSE Cell(RowAt(data, previewIndex), field.label)

PatchRecomputes(updates, field) ==
    \/ "autoWidth" \in DOMAIN updates /\ updates.autoWidth = TRUE
    \/ field.autoWidth /\ DOMAIN updates \cap {"fontSize", "fontFamily", "label"} # {}

\* C10: after updateField(id, patch) with a patch that sets autoWidth to
\* true, or that contains fontSize, fontFamily or label while the resulting
\* field is auto-width, the field's stored width is the measure of its
\* binding's text at the resulting fontSize and fontFamily
PatchRecomputesWidth ==
    last.op = "updateField" =>
        \A i \in 1..Len(Placed) :
            (Placed[i].id = last.id /\ PatchRecomputes(last.updates, Placed[i])) =>
                Placed[i].width =
                    calculateTextWidth(BindingText(Placed[i]), Placed[i].fontSize,
                                       Placed[i].fontFamily)

\* the width the layout uses for the field under its current binding
BindingEffectiveWidth(field) ==
    IF currentStep = "design" THEN FD_getEffectiveWidth(field)
    ELSE CG_getEffectiveWidth(field, RowAt(data, previewIndex))

\* C11: after any sequence of field updates, drags and preview-row
\* selections, every auto-width field's stored width equals the effective
\* width computed for its current binding's text
StoredWidthIsEffectiveWidth ==
    \A i \in 1..Len(Placed) :
        Placed[i].autoWidth => Placed[i].width = BindingEffectiveWidth(Placed[i])

\* C11, within the design step alone
DesignStoredWidthIsEffectiveWidth ==
    currentStep = "design" => StoredWidthIsEffectiveWidth

\* C11, after a preview-row selection in the generate step
PreviewStoredWidthIsEffectiveWidth ==
    last.op = "setPreviewIndex" => StoredWidthIsEffectiveWidth

---------------------------------------------------------------------------
(* Properties of the export run (checked under SpecExport)                 *)

Running == isGenerating

\* C12: export processes rows one at a time in collection order: at most
\* one row's render is in flight, it is the row after the rows already in
\* the archive, and the rows were added in the order 0, 1, 2, ...
RowsOneAtATime ==
    /\ Cardinality(run.pending) <= 1
    /\ \A p \in run.pending : p.row = Len(run.added)
    /\ \A k \in 1..Len(run.added) : run.added[k] = k - 1

\* a run with a row in the archive and the next row's render in flight
SecondRowInFlight ==
    /\ Running
    /\ Len(run.added) = 1
    /\ \E p \in run.pending : p.row = 1 /\ p.stage = "encode"

\* C13: during a run the progress counter is 0 at the start, becomes k
\* exactly when the k-th row has been added to the archive, never decreases
\* while the run is in progress, and is the number of rows when the archive
\* is produced
ProgressCountsAddedRows ==
    [][/\ (~Running /\ Running') => generatedCount' = 0
       /\ Len(run'.added) = Len(run.added) + 1 => generatedCount' = Len(run'.added)
       /\ (Running /\ Running') =>
            /\ generatedCount' >= generatedCount
            /\ generatedCount' # generatedCount => Len(run'.added) = Len(run.added) + 1
       /\ saved' # saved => generatedCount' = Len(data)]_vars

\* two of three rows are in the archive and the counter has followed
ProgressMidRun ==
    /\ Running
    /\ Len(data) = 3
    /\ Len(run.added) = 2
    /\ generatedCount = 2

\* C14: a completed export's archive has exactly one entry per data row,
\* also when rows sanitize to the same title: no entry is replaced by a
\* later row's
ArchiveHasOneEntryPerRow ==
    \A k \in 1..Len(saved) :
        /\ Len(saved[k]) = Len(data)
        /\ \A r \in 0..(Len(data) - 1) : \E e \in 1..Len(saved[k]) : saved[k][e].row = r

\* the row's value under the first field's label, empty when there is none
TitleOf(flds, r) ==
    IF flds # <<>> /\ flds[1].label \in DOMAIN data[r + 1]
    THEN data[r + 1][flds[1].label]
    ELSE sEmpty

\* the title, or the ordinal when the title is empty
NameBase(flds, r) ==
    IF TitleOf(flds, r) # sEmpty THEN TitleOf(flds, r)
    ELSE sCertificateDash \o NatToString(r + 1)

\* name is base with every character outside [a-zA-Z0-9-_] replaced by '_',
\* followed by the extension
NamedAfter(name, base) ==
    /\ Len(name) = Len(base) + Len(sDotPng)
    /\ \A k \in 1..Len(base) :
        name[k] = (IF base[k] \in FileNameChars THEN base[k] ELSE "_")
    /\ \A k \in 1..Len(sDotPng) : name[Len(base) + k] = sDotPng[k]

\* C15: the entry of row i is named after the row's value under the first
\* field's label, with every character outside [a-zA-Z0-9-_] replaced by
\* '_', or after the ordinal certificate-<i+1> when that value is empty or
\* missing or there is no field; the same value labels the row in the
\* Preview select
EntryNamedAfterFirstField ==
    /\ \A e \in 1..Len(run.zip) :
        NamedAfter(run.zip[e].name, NameBase(run.flds, run.zip[e].row))
    /\ \A r \in 0..(Len(data) - 1) :
        /\ NamedAfter(certificateFileName(<<>>, RowAt(data, r), r),
                      sCertificateDash \o NatToString(r + 1))
        /\ TitleOf(editableFields, r) # sEmpty =>
            previewOptionText(editableFields, RowAt(data, r), r) = TitleOf(editableFields, r)

\* an archive with an entry whose title had a character replaced and an
\* entry named after its ordinal
SanitizedAndOrdinalEntries ==
    /\ \E e \in 1..Len(run.zip) :
        /\ run.zip[e].name = sA_B \o sDotPng
        /\ TitleOf(run.flds, run.zip[e].row) = sAB
    /\ \E e \in 1..Len(run.zip) :
        /\ run.zip[e].row = 1
        /\ run.zip[e].name = sCertificateDash \o <<"2">> \o sDotPng

\* a row of the run in progress has failed: its image did not load or its
\* canvas was not encoded
RowFailed == Running /\ run.failed # {}

\* C16: when the render of a row fails, the run is aborted: no archive is
\* saved from it and the generator returns to Idle, where the export can
\* be started again
FailedRunAborts ==
    /\ RowFailed ~> ~Running
    /\ [][saved' # saved => run.failed = {}]_vars

\* C16, the return to Idle alone
FailedRunReturnsToIdle == RowFailed ~> ~Running

\* C16, the archive alone
FailedRunSavesNothing == [][saved' # saved => run.failed = {}]_vars

\* C17: every export run that starts eventually returns to Idle, whatever
\* the outcome of each row's image load and encode step
EveryRunReturnsToIdle == Running ~> ~Running

\* row r has no text for the label: no such key, or an empty value
Unbound(r, label) ==
    label \notin DOMAIN data[r + 1] \/ data[r + 1][label] = sEmpty

\* the surface is row r's, complete: one draw per field of the run, the
\* empty string at the stored width for a field without text in the row, the
\* row's value at its effective width for every other field
RowDrawn(surface, r) ==
    /\ surface.rendered
    /\ Len(surface.draws) = Len(run.flds)
    /\ \A k \in 1..Len(run.flds) :
        LET field == run.flds[k]
            draw == surface.draws[k]
        IN  IF Unbound(r, field.label)
            THEN draw.text = sEmpty /\ draw.effectiveWidth = field.width
            ELSE /\ draw.text = data[r + 1][field.label]
                 /\ draw.effectiveWidth =
                        (IF field.autoWidth
                         THEN calculateTextWidth(draw.text, field.fontSize, field.fontFamily)
                         ELSE field.width)

\* C18: a field without text in the row is drawn as the empty string at
\* field.width, the row's render completes with every other field drawn
\* from the row, and an encoded row gets its entry in the archive
MissingBindingDrawsEmpty ==
    /\ \A p \in run.pending : p.stage = "encode" => RowDrawn(p.surface, p.row)
    /\ \A e \in 1..Len(run.zip) :
        run.zip[e].blob.png => RowDrawn(run.zip[e].blob.surface, run.zip[e].row)
    /\ run.added # <<>> =>
        \E e \in 1..Len(run.zip) : run.zip[e].row = run.added[Len(run.added)]

\* the archive holds the image of a row that lacks the column of one field
\* and has text for another
SparseRowInArchive ==
    \E e \in 1..Len(run.zip) :
        /\ run.zip[e].blob.png
        /\ \E k \in 1..Len(run.flds) :
            /\ run.flds[k].label \notin DOMAIN data[run.zip[e].row + 1]
            /\ run.zip[e].blob.surface.draws[k].text = sEmpty
        /\ \E k \in 1..Len(run.flds) :
            run.zip[e].blob.surface.draws[k].text # sEmpty

---------------------------------------------------------------------------
(* Properties of the field collection (checked under Spec)                 *)

Ids(flds) == [i \in 1..Len(flds) |-> flds[i].id]

\* C19: field ids are unique within the field collection after any
\* sequence of add, update and remove operations, two adds at the same
\* clock reading included
FieldIdsUnique ==
    \A i, j \in 1..Len(Placed) : Placed[i].id = Placed[j].id => i = j

\* C19, second half: no operation other than an add or a remove changes
\* the ids of the collection
FieldIdsKept ==
    [][last'.op \notin {"addField", "deleteField"} => Ids(Placed') = Ids(Placed)]_vars

---------------------------------------------------------------------------
(* Properties of the wizard (checked under SpecWizard)                     *)

\* C20: at the generate step every label of the field collection is a
\* column of the imported rows, after any sequence of forward and back
\* navigation, field edits and file imports
LabelsAreColumns ==
    currentStep = "generate" =>
        \A i \in 1..Len(fields), r \in 1..Len(data) : fields[i].label \in DOMAIN data[r]

---------------------------------------------------------------------------
(* Properties of the placement controller (checked under Spec)             *)

\* the size the pointer is scaled to: the template's in the design step,
\* the canvas's in the generate step
Native == IF currentStep = "design" THEN template ELSE canvas

Inside(e, rect) ==
    /\ LessEq(rect.left, e.clientX) /\ LessEq(e.clientX, Plus(rect.left, rect.width))
    /\ LessEq(rect.top, e.clientY) /\ LessEq(e.clientY, Plus(rect.top, rect.height))

RoundTrips(e, rect) ==
    LET back == toDisplaySpace(toTemplateSpace(e, rect, Native.width, Native.height),
                               rect, Native.width, Native.height)
    IN  /\ back.x = Minus(e.clientX, rect.left)
        /\ back.y = Minus(e.clientY, rect.top)

\* C21: a pointer position inside a display rect of nonzero size, mapped to
\* template space and back with the overlay's inverse scale, is the pointer's
\* offset within the rect again
TransformRoundTrip ==
    /\ last.op \in {"handleMouseDown", "handleMouseMove"} /\ last.rect # NoRect =>
        RoundTrips(last.e, last.rect)
    /\ \A e \in Pointers, rect \in DisplayRects(template) :
        Inside(e, rect) => RoundTrips(e, rect)

\* a pointerDown off the rect's origin on a display box scaled down from
\* the template
ScaledPointerDown ==
    /\ last.op = "handleMouseDown"
    /\ last.rect.width # Native.width
    /\ last.e.clientX # last.rect.left /\ last.e.clientY # last.rect.top
    /\ Inside(last.e, last.rect)

\* C22: pointerUp, and the pointer leaving the surface, put the controller
\* in Idle from any state and change no field; while Idle no pointerMove
\* moves a field, and only a pointerDown on a hit-box starts a drag
PointerUpEndsDrag ==
    [][/\ last'.op = "handleMouseUp" => ~isDragging' /\ Placed' = Placed
       /\ (~isDragging /\ last'.op = "handleMouseMove") => Placed' = Placed
       /\ (~isDragging /\ isDragging') => last'.op = "handleMouseDown"]_vars

\* a pointerMove that found the controller Idle after a drag had been
\* started and ended
MoveAfterPointerUp ==
    /\ last.op = "handleMouseMove" /\ last.id = NoField
    /\ ~isDragging
    /\ selectedField # NoField
    /\ dragOffset # [x |-> Num(0), y |-> Num(0)]

\* the pointer of the last event in template space, for the display rect
\* measured at that event
PointerTemplatePos ==
    [x |-> Times(Minus(last.e.clientX, last.rect.left), Over(Native.width, last.rect.width)),
     y |-> Times(Minus(last.e.clientY, last.rect.top), Over(Native.height, last.rect.height))]

\* C23: pointerDown on field f's hit-box puts the controller in Dragging,
\* selects f and records dragOffset = pointer position in template space
\* (for the current display rect) minus (f.x, f.y), and changes no field
PointerDownStartsDrag ==
    [][last'.op = "handleMouseDown" =>
        /\ isDragging'
        /\ selectedField' = last'.id
        /\ \A i \in 1..Len(Placed') :
            Placed'[i].id = last'.id =>
                dragOffset' = [x |-> Minus(PointerTemplatePos'.x, Placed'[i].x),
                               y |-> Minus(PointerTemplatePos'.y, Placed'[i].y)]
        /\ Placed' = Placed]_vars

\* a drag started on a display box scaled down and away from the viewport's
\* origin, with the pointer off the field's corner
OffsetPointerDown ==
    /\ last.op = "handleMouseDown"
    /\ isDragging
    /\ last.rect.left # Num(0)
    /\ last.rect.width # Native.width
    /\ ~IsNaN(dragOffset.x) /\ dragOffset.x # Num(0)

\* C23, for a hit-box whose field is the only one with its id
PointerDownStartsDragOfUniqueId ==
    [][(last'.op = "handleMouseDown"
        /\ Cardinality({i \in 1..Len(Placed') : Placed'[i].id = last'.id}) = 1) =>
        /\ isDragging'
        /\ selectedField' = last'.id
        /\ \A i \in 1..Len(Placed') :
            Placed'[i].id = last'.id =>
                dragOffset' = [x |-> Minus(PointerTemplatePos'.x, Placed'[i].x),
                               y |-> Minus(PointerTemplatePos'.y, Placed'[i].y)]
        /\ Placed' = Placed]_vars

\* C24: in the generate step the controller is never Dragging while edit
\* mode is off
DragOnlyInEditMode ==
    currentStep = "generate" => (isDragging => isEditMode)

\* C24, its consequence: no pointerMove moves a field while edit mode is off
NoMoveOutsideEditMode ==
    [][(currentStep = "generate" /\ ~isEditMode /\ last'.op = "handleMouseMove") =>
        editableFields' = editableFields]_vars

\* the fields the selection designates: those shown as selected and moved by
\* a drag
Selected == {i \in 1..Len(Placed) : Placed[i].id = selectedField}

\* C25: at most one field is selected, and at most one dragged, at any time
AtMostOneSelected == Cardinality(Selected) <= 1

\* C25, second half: selecting a field while Idle changes the selection
\* only, the field collection stays as it is
SelectingKeepsFields ==
    [][last'.op = "setSelectedField" =>
        /\ fields' = fields
        /\ isDragging' = isDragging /\ dragOffset' = dragOffset]_vars

\* C26: each pointerDown and each pointerMove maps the pointer with the
\* display rect measured at that event: the drag offset of a pointerDown
\* and the position a pointerMove gives the dragged field are those of the
\* event's own rect, whatever rect the events before had
ScaleMeasuredAtEvent ==
    /\ last.op = "handleMouseDown" =>
        LET field == Head(Find(Placed, last.id))
            pos == PointerTemplatePos
        IN  dragOffset = [x |-> Minus(pos.x, field.x), y |-> Minus(pos.y, field.y)]
    /\ (last.op = "handleMouseMove" /\ last.id # NoField) =>
        LET pos == PointerTemplatePos
            x == DragPosition(Minus(pos.x, dragOffset.x), template.width, MinFieldWidth)
            y == DragPosition(Minus(pos.y, dragOffset.y), template.height, MinFieldHeight)
        IN  \A i \in 1..Len(Placed) :
                Placed[i].id = last.id => Placed[i].x = x /\ Placed[i].y = y

\* the drag offsets a pointerDown on the field with the last event's id, as
\* the design step left it, records for the display rect
OffsetsFor(rect) ==
    {[x |-> Minus(toTemplateSpace(e, rect, Native.width, Native.height).x, fields[i].x),
      y |-> Minus(toTemplateSpace(e, rect, Native.width, Native.height).y, fields[i].y)] :
        e \in Pointers, i \in {k \in 1..Len(fields) : fields[k].id = last.id}}

\* a field of the generate step dragged by a pointerMove whose display rect
\* is not the one of the pointerDown that started the drag
MoveAfterResize ==
    /\ currentStep = "generate"
    /\ last.op = "handleMouseMove" /\ last.id # NoField
    /\ dragOffset \notin OffsetsFor(last.rect)
    /\ \E rect \in DisplayRects(template) : dragOffset \in OffsetsFor(rect)

\* C27: the field collection and the preview-row selection are not changed
\* while an export run is in flight: no step taken while the export is
\* Running changes editableFields or previewIndex
ExportFreezesModel ==
    [][(Running /\ Running') =>
        /\ editableFields' = editableFields
        /\ previewIndex' = previewIndex]_vars

\* C27, the run's own view: the rows of a run are rendered from the field
\* collection the click captured, whatever is edited meanwhile
RunRendersCapturedFields ==
    [][(Running /\ Running') => run'.flds = run.flds]_vars

---------------------------------------------------------------------------
(* Properties of the preview's rendering (checked under SpecPreview)        *)

\* C28: once every pending image load of the preview has completed, in
\* whatever order, the preview surface holds the render of the current
\* field collection and the selected row: the texts of the current fields
\* for the selected row at their positions
PreviewShowsCurrentTexts ==
    loads = {} =>
        LET current == renderPreview(template, editableFields, RowAt(data, previewIndex))
        IN  /\ Len(canvas.draws) = Len(current.draws)
            /\ \A i \in 1..Len(current.draws) :
                /\ canvas.draws[i].text = current.draws[i].text
                /\ canvas.draws[i].x = current.draws[i].x
                /\ canvas.draws[i].y = current.draws[i].y

---------------------------------------------------------------------------
(* Properties of the field collection's operations (checked under Spec)     *)

\* C29: add appends exactly one field at the end of the collection, with
\* the fixed defaults and the label 'Field <n+1>' for a collection of n
\* fields, leaves every field there was unchanged and selects the new field
AddAppendsDefaultField ==
    [][(last'.op = "addField" /\ steps' # steps) =>
        /\ Len(fields') = Len(fields) + 1
        /\ SubSeq(fields', 1, Len(fields)) = fields
        /\ LET newField == fields'[Len(fields')]
           IN  /\ newField.x = Num(100) /\ newField.y = Num(100)
               /\ newField.width = Num(2500) /\ newField.height = Num(300)
               /\ newField.fontSize = Num(200) /\ newField.fontFamily = "Arial"
               /\ newField.color = "#000000" /\ newField.align = "center"
               /\ newField.autoWidth = FALSE
               /\ newField.label
                    = <<"F", "i", "e", "l", "d", " ">> \o NatToString(Len(fields) + 1)
               /\ selectedField' = newField.id]_vars

\* a second field was added to a collection of one
SecondFieldAdded ==
    /\ last.op = "addField"
    /\ Len(fields) = 2
    /\ fields[2].label = <<"F", "i", "e", "l", "d", " ", "2">>
    /\ selectedField = fields[2].id

\* the fields of a collection whose id differs from the given one, in order
Others(flds, id) == SelectSeq(flds, LAMBDA f : f.id # id)

\* an id no field has
AbsentId == <<-1>>

\* C30: update(id, patch) and remove(id) leave every field whose id
\* differs from the given id unchanged and in the same relative order;
\* remove deletes exactly the fields with that id and clears the selection;
\* update with an id that matches no field leaves the collection unchanged
UpdateAndRemoveKeepOthers ==
    [][steps' # steps =>
        /\ (last'.op \in {"updateField", "handleMouseMove"} /\ last'.id # NoField) =>
            /\ Len(Placed') = Len(Placed)
            /\ \A i \in 1..Len(Placed) :
                Placed[i].id # last'.id => Placed'[i] = Placed[i]
            /\ IF currentStep = "design"
               THEN FD_updateField(fields, AbsentId, last'.updates) = fields
               ELSE CG_updateField(editableFields, AbsentId, last'.updates,
                                   RowAt(data, previewIndex)) = editableFields
        /\ last'.op = "deleteField" =>
            /\ Others(fields', last'.id) = Others(fields, last'.id)
            /\ \A i \in 1..Len(fields') : fields'[i].id # last'.id
            /\ selectedField' = NoField]_vars

\* a field was removed from a collection that held a field of another id,
\* which is still there
RemovedOneOfTwo ==
    /\ last.op = "deleteField"
    /\ Len(fields) >= 1
    /\ \A i \in 1..Len(fields) : fields[i].id # last.id
    /\ selectedField = NoField

\* a property edit of one field of a collection that holds a field of
\* another id
UpdatedOneOfTwo ==
    /\ last.op = "updateField"
    /\ \E i \in 1..Len(Placed) : Placed[i].id = last.id
    /\ \E i \in 1..Len(Placed) : Placed[i].id # last.id

---------------------------------------------------------------------------
(* Properties of the export run and the editable copy (checked under Spec)  *)

\* C31: all rows of one export run are rendered and named with the field
\* collection that was current when the run was started: the run takes the
\* collection of the click, keeps it while it is Running whatever is edited,
\* dragged or reset meanwhile, and every row it draws and every entry it
\* names is drawn and named with it
RunUsesFieldsOfItsStart ==
    [][/\ (~Running /\ Running') => run'.flds = editableFields
       /\ (Running /\ Running') =>
            /\ run'.flds = run.flds
            /\ Len(run'.surfaces) > Len(run.surfaces) =>
                run'.surfaces[Len(run'.surfaces)]
                    = generateCertificateImage(template, run.flds,
                                               RowAt(data, Len(run.surfaces)))
            /\ Len(run'.added) > Len(run.added) =>
                LET row == run'.added[Len(run'.added)]
                    name == certificateFileName(run.flds, RowAt(data, row), row)
                IN  \E k \in 1..Len(run'.zip) :
                        run'.zip[k].name = name /\ run'.zip[k].row = row]_vars

\* a row of a run has been drawn and the editable copy is no longer the
\* collection the run was started with
EditedDuringRun ==
    /\ Running
    /\ run.surfaces # <<>>
    /\ editableFields # run.flds
    /\ last.op \in {"updateField", "handleMouseMove", "resetFields"}

\* C32: at most one export run is in progress at any time: a run is started
\* only when no run is in progress
OneRunAtATime ==
    /\ Len(orphans) <= 1
    /\ ~(Suspended(run) /\ orphans # <<>>)

\* C32, for the mounted generator alone: generateAllCertificates is called
\* only while the generator is not generating and edit mode is off, and the
\* progress counter goes back to 0 only by such a call
StartOnlyFromIdle ==
    [][/\ (last'.op = "generateAllCertificates" /\ steps' # steps) =>
            ~isGenerating /\ ~isEditMode /\ isGenerating' /\ generatedCount' = 0
       /\ (generatedCount' < generatedCount) =>
            ~isGenerating /\ last'.op = "generateAllCertificates"]_vars

\* C33: a pointerMove changes the field collection only when the controller
\* is Dragging and a field is selected, and then it changes only the x and y
\* of the selected field: that field's other properties, the stored width of
\* an auto-width field among them, and every other field are unchanged
MoveChangesPositionOnly ==
    [][(last'.op = "handleMouseMove" /\ steps' # steps) =>
        /\ (~isDragging \/ selectedField = NoField) => Placed' = Placed
        /\ Len(Placed') = Len(Placed)
        /\ \A i \in 1..Len(Placed) :
            IF Placed[i].id = selectedField
            THEN [Placed'[i] EXCEPT !.x = Placed[i].x, !.y = Placed[i].y] = Placed[i]
            ELSE Placed'[i] = Placed[i]]_vars

\* an auto-width field was moved next to a field of another id
AutoWidthFieldMoved ==
    /\ last.op = "handleMouseMove" /\ last.id # NoField
    /\ \E i \in 1..Len(Placed) :
        /\ Placed[i].id = last.id /\ Placed[i].autoWidth
        /\ Placed[i].x = last.updates.x /\ Placed[i].x # Num(100)
    /\ \E i \in 1..Len(Placed) : Placed[i].id # last.id

\* a pointerMove while Idle
MovedWhileIdle ==
    /\ last.op = "handleMouseMove" /\ last.id = NoField
    /\ ~isDragging
    /\ Placed # <<>>

\* a pointerMove that follows a pointerDown at once, at the same pointer
\* position and with the same display rect
GrabStep ==
    /\ last.op = "handleMouseDown" /\ last'.op = "handleMouseMove"
    /\ steps' # steps
    /\ last'.id # NoField /\ last'.id = last.id
    /\ last'.e = last.e /\ last'.rect = last.rect

\* C34: grabbing does not move a field: a pointerDown on a field's hit-box
\* followed at once by a pointerMove at the same pointer position with the
\* same display rect leaves the field's x and y unchanged
GrabbingKeepsPosition ==
    [][GrabStep =>
        \A i \in 1..Len(Placed) :
            Placed[i].id = last'.id =>
                Placed'[i].x = Placed[i].x /\ Placed'[i].y = Placed[i].y]_vars

\* C34, what the grab does: every field with the grabbed id gets the
\* position of the first field with that id, clamped as a drag clamps
GrabbingClampsPosition ==
    [][GrabStep =>
        LET field == Head(Find(Placed, last'.id))
        IN  \A i \in 1..Len(Placed) :
                Placed[i].id = last'.id =>
                    /\ Placed'[i].x = DragPosition(field.x, template.width, MinFieldWidth)
                    /\ Placed'[i].y = DragPosition(field.y, template.height, MinFieldHeight)]_vars

\* C35: edits made in the generate step, drags and property edits on the
\* generator's editable copy, never change the session's field collection;
\* Reset in the generate step makes the editable copy the session's field
\* collection again and clears the selection
GenerateStepKeepsSessionFields ==
    [][currentStep = "generate" =>
        /\ fields' = fields
        /\ (last'.op = "resetFields" /\ steps' # steps) =>
            editableFields' = fields /\ selectedField' = NoField]_vars

\* the editable copy has been edited or dragged away from the session's
\* field collection
EditableCopyDiffers ==
    /\ currentStep = "generate"
    /\ last.op \in {"updateField", "handleMouseMove"} /\ last.id # NoField
    /\ editableFields # fields

---------------------------------------------------------------------------
(* Properties of the project's inputs at the generate step (checked under  *)
(* SpecProject).                                                           *)

\* C36: whenever the wizard is at the generate step the template is
\* present, the field collection is non-empty and the data set is non-empty,
\* and the previewed row index denotes an existing row, after any sequence
\* of navigation, template changes, field add/delete, file imports and reset
GenerateStepHasInputs ==
    currentStep = "generate" =>
        /\ template # NoTemplate
        /\ Len(fields) > 0
        /\ Len(data) > 0
        /\ previewIndex < Len(data)

\* C36, the part that holds: at the generate step there are a template,
\* fields and rows
GenerateStepHasTemplateFieldsRows ==
    currentStep = "generate" =>
        /\ template # NoTemplate
        /\ Len(fields) > 0
        /\ Len(data) > 0

\* the rows were replaced under the mounted generator by an import that
\* completed after the data step was left
RowsReplacedAtGenerate ==
    /\ currentStep = "generate"
    /\ \E p \in parses : ~p.mounted
    /\ previewIndex > 0

=============================================================================
